---- MODULE Spec2Model ----
(***************************************************************************)
(* State-machine model of the software video compositor of                 *)
(* source/agent/video/videoMixer/SoftVideoCompositor.cpp:                  *)
(* SoftInput (bounded per-input frame queue), the per-input buffer pool,   *)
(* and the sync-target computation and per-region frame fetch of           *)
(* SoftFrameGenerator::layout_regions.                                     *)
(***************************************************************************)
EXTENDS Integers, Sequences, FiniteSets, TLC

(* ----------------------------- constants ------------------------------ *)

\* SoftInput's queue capacity and the size of its buffer pool.
kMaxQueueSize == 5

\* m_generators.resize(2)
NumGenerators == 2

(* ------------------------------- bounds ------------------------------- *)

\* maxInput of the compositor's constructor.
MaxInput == 2
\* Threads that call pushInput concurrently.
NumPushers == 2
\* Generator threads that read one SoftInput concurrently.
NumReaders == 1
\* Total number of accepted pushInput calls of a run (cap of the frame counter).
MaxPush == 7
\* Distinct frame dimensions the upstream may deliver.
NumDims == 2
\* Sync timestamps of the composition model range over -MaxNegTs..MaxTs.
MaxNegTs == 2
MaxTs == 1
\* Longest queue a composition starts from (besides a full queue).
MaxInitLen == 2
\* Calls of pushInput or setActive that run while a composition is in progress.
MaxEnv == 1
MaxReadLen == 4
\* Distinct avatar URLs.
NumUrls == 2
\* Largest frame rate a generator is constructed with.
MaxRate == 16
\* Largest denominator of the fractions of a layout rectangle.
MaxDen == 3
\* Largest reading of the clock, in milliseconds.
MaxClock == 120
\* Distinct frame destinations.
MaxDest == 2
\* Outputs registered at the same time.
MaxOutputs == 2
\* Ticks of a run on which layout() finds no free canvas buffer.
MaxFail == 1

Inputs == 1..MaxInput
Pushers == 1..NumPushers
Readers == 1..NumReaders
Dims == 1..NumDims
Urls == 1..NumUrls
Dests == 1..MaxDest
Gens == 1..NumGenerators

VARIABLES
    m_active,              \* SoftInput::m_active, per input
    m_sync_enabled,        \* SoftInput::m_sync_enabled
    m_frame_sync_enabled,  \* SoftInput::m_frame_sync_enabled
    m_frame_queue,         \* SoftInput::m_frame_queue: sequence of frames
    poolDim,               \* dimensions of the buffers the input's pool keeps (0: none yet)
    pc,                    \* per pusher thread: position inside pushInput
    pframe,                \* per pusher thread: the frame of the call in progress
    nextId,                \* number of the next accepted pushInput call
    overflowed,            \* per input: some pushInput found the queue full
    ret,                   \* per reader thread: the frame its last read returned and still holds
    rop,                   \* per reader thread: the read that returned ret, and the frames it removed
    front_frame,           \* layout_regions' local front_frame (held by the generator thread)
    m_layout,              \* SoftFrameGenerator::m_layout: the input index of each region
    m_inputs,              \* AvatarManager::m_inputs: input index -> URL (NoUrl: no entry)
    m_frames,              \* AvatarManager::m_frames: URL -> cached frame, cached null or no entry
    fileOk,                \* per URL: the URL parses and its file has the I420 size it names
    av_hist,               \* per index: "set" after setAvatar with a URL that loads, "failed"
                           \* after a getAvatarFrame whose load failed, "none" otherwise
    g_pc,                  \* position of the generator thread inside layout_regions
    g_it,                  \* layout_regions' iterator: index of the current region
    min_sync_timeStamp,    \* layout_regions' local
    max_sync_timeStamp,    \* layout_regions' local
    capable,               \* regions that contributed to the sync target of this composition
    painted,               \* per region done so far: the frame it was painted with, if any
    envLeft,               \* calls that may still interleave with the composition
    scenario,              \* which family of start states the run began in
    m_outputs,             \* per generator: SoftFrameGenerator::m_outputs, bucket -> outputs
    m_counter,             \* per generator: SoftFrameGenerator::m_counter
    t_pc,                  \* per generator: position of its timer thread inside onTimeout
    m_newLayout,           \* per generator: SoftFrameGenerator::m_newLayout
    m_configureChanged,    \* per generator: SoftFrameGenerator::m_configureChanged
    g_layout,              \* per generator: SoftFrameGenerator::m_layout
    upd,                   \* the compositor's updateLayoutSolution call in progress, if any
    addRet,                \* what the last compositor addOutput call returned
    latest,                \* per generator: layout of its last completed updateLayoutSolution
    accepted,              \* destinations some addOutput call has registered
    delivered,             \* destinations that have received onFrame
    hist,                  \* per destination: ticks since its last onFrame and the last gap
    fails,                 \* ticks so far on which no canvas buffer was free
    enq_order,             \* the ids of the frames of input 1 enqueued so far, in enqueue order
    obtained,              \* per generator: id of the frame it obtained last, 0 before the first
    registered,            \* per destination: the rate addOutput returned true for and
                           \* removeOutput has not returned true for since (0: none)
    tick,                  \* what the onTimeout that completed last did
    args,                  \* the arguments of the function a specification applies
    result,                \* what that function returned for args
    d_pc,                  \* the thread that destroys the compositor: 0 before it calls
                           \* the destructor, g while generator g is the next to be
                           \* destroyed, then one step for the avatars and inputs
    running                \* per generator: its JobTimer has been started and not stopped

inputVars == <<m_active, m_sync_enabled, m_frame_sync_enabled, m_frame_queue>>
pushVars == <<pc, pframe, nextId, overflowed>>
readVars == <<ret, rop, front_frame>>
avatar == <<m_inputs, m_frames, fileOk, av_hist>>
coreVars == <<inputVars, poolDim, pushVars, readVars>>
tickVars == <<m_layout, avatar, g_pc, g_it, min_sync_timeStamp, max_sync_timeStamp,
              capable, painted, envLeft, scenario>>
watchVars == <<registered, tick>>
obsVars == <<accepted, delivered, hist, fails, watchVars>>
outVars == <<m_outputs, m_counter, t_pc, addRet, obsVars>>
layoutVars == <<m_newLayout, m_configureChanged, g_layout, upd, latest>>
orderVars == <<enq_order, obtained>>
extVars == <<args, result, d_pc, running>>
genVars == <<outVars, layoutVars, orderVars, extVars>>
vars == <<coreVars, tickVars, genVars>>

(* ------------------------------ frames -------------------------------- *)

\* A SoftInputFrame: its buffer (named by the number of the call that filled
\* it; pooled while the input's pool still keeps it) and its sync timestamp.
\* An optional frame (a null shared_ptr or a frame) is a sequence of length <= 1.
\* The url field names the file of an avatar frame and is 0 for a queued frame.
Frame(i, id, ts, pooled) ==
    [input |-> i, id |-> id, sync_timeStamp |-> ts, pooled |-> pooled, url |-> 0]

NullFrame == <<>>

\* A reader thread that holds no frame.
NoRead == [op |-> "none", removed |-> 0]

\* The locals of a pusher thread that is not inside pushInput.
IdlePush == [input |-> 1, id |-> 0, sync_timeStamp |-> 0, pooled |-> FALSE, full |-> FALSE]

PushedFrame(p) == Frame(pframe[p].input, pframe[p].id, pframe[p].sync_timeStamp, pframe[p].pooled)

(* --------------------------- I420BufferManager ------------------------ *)

\* The frames some holder still references: queued, held by a pusher between
\* getFreeBuffer and the enqueue, or held by a generator after a read.
LiveFrames(i) ==
    { m_frame_queue[i][k] : k \in 1..Len(m_frame_queue[i]) }
    \cup { PushedFrame(p) : p \in { q \in Pushers : pc[q] = "enqueue" /\ pframe[q].input = i } }
    \cup { x \in UNION { { ret[g][k] : k \in 1..Len(ret[g]) }
                       \cup { front_frame[g][k] : k \in 1..Len(front_frame[g]) } : g \in DOMAIN ret } :
             x.input = i }

\* Buffers of the pool that are checked out.
BusyBuffers(i) == { f.id : f \in { x \in LiveFrames(i) : x.pooled } }

\* getFreeBuffer(width, height): a request for other dimensions than the pool
\* keeps makes the pool drop the buffers it keeps and start afresh.
PoolResizes(i, dim) == dim # poolDim[i]

\* Otherwise a buffer is handed out unless all kMaxQueueSize are referenced.
HasFreeBuffer(i, dim) == PoolResizes(i, dim) \/ Cardinality(BusyBuffers(i)) < kMaxQueueSize

\* A reference to a buffer the pool has dropped.
Dropped(f) == [f EXCEPT !.pooled = FALSE]

DroppedSeq(q) == [k \in 1..Len(q) |-> Dropped(q[k])]

\* The references of the reader threads after the pool of input i dropped its buffers.
DroppedHeld(held, i) ==
    [g \in DOMAIN held |-> [k \in 1..Len(held[g]) |->
        IF held[g][k].input = i THEN Dropped(held[g][k]) ELSE held[g][k]]]

(* ---------------------------- AvatarManager --------------------------- *)

\* m_inputs.find(index) == m_inputs.end()
NoUrl == 0

\* The frame loaded from a URL: no queued frame has id 0.
AvatarFrame(u) == [Frame(0, 0, 0, FALSE) EXCEPT !.url = u]

\* loadImage(url): null when the URL does not parse or the file has not the
\* size the URL names.
loadImage(u) == IF fileOk[u] THEN <<AvatarFrame(u)>> ELSE NullFrame

\* What getAvatarFrame(index) returns.
getAvatarFrame(i) ==
    IF m_inputs[i] = NoUrl THEN NullFrame
    ELSE IF m_frames[m_inputs[i]] = "frame" THEN <<AvatarFrame(m_inputs[i])>>
    ELSE IF m_frames[m_inputs[i]] = "null" THEN NullFrame
    ELSE loadImage(m_inputs[i])

\* m_frames after getAvatarFrame(index): the result of a load is cached, a
\* null result too.
FramesAfterGet(i) ==
    IF m_inputs[i] = NoUrl \/ m_frames[m_inputs[i]] # "none" THEN m_frames
    ELSE [m_frames EXCEPT ![m_inputs[i]] = IF fileOk[m_inputs[i]] THEN "frame" ELSE "null"]

\* Mutant of FramesAfterErase: the cache entry is never erased.
FramesAfterErase_Keep(inputs, u) == m_frames

\* m_frames after an index stopped mapping to URL u: the entry is erased
\* unless another index maps to u.
FramesAfterErase(inputs, u) ==
    IF \E j \in Inputs : inputs[j] = u THEN m_frames
    ELSE [m_frames EXCEPT ![u] = "none"]

\* av_hist after getAvatarFrame(index).
HistAfterGet(i) ==
    [av_hist EXCEPT ![i] = IF m_inputs[i] # NoUrl /\ getAvatarFrame(i) = NullFrame
                           THEN "failed" ELSE "none"]

\* setAvatar(index, url)
SetAvatar(i, u) ==
    /\ m_inputs' = [m_inputs EXCEPT ![i] = u]
    /\ m_frames' = IF m_inputs[i] = NoUrl \/ m_inputs[i] = u THEN m_frames
                   ELSE FramesAfterErase(m_inputs', m_inputs[i])
    /\ av_hist' = [av_hist EXCEPT ![i] = IF fileOk[u] THEN "set" ELSE "none"]
    /\ UNCHANGED fileOk

\* Mutant of UnsetAvatar: the cache entry is erased whether or not another
\* index maps to the URL.
UnsetAvatar_EraseAlways(i) ==
    /\ m_inputs' = [m_inputs EXCEPT ![i] = NoUrl]
    /\ m_frames' = IF m_inputs[i] = NoUrl THEN m_frames
                   ELSE [m_frames EXCEPT ![m_inputs[i]] = "none"]
    /\ av_hist' = [av_hist EXCEPT ![i] = "none"]
    /\ UNCHANGED fileOk

\* unsetAvatar(index)
UnsetAvatar(i) ==
    /\ m_inputs' = [m_inputs EXCEPT ![i] = NoUrl]
    /\ m_frames' = IF m_inputs[i] = NoUrl THEN m_frames
                   ELSE FramesAfterErase(m_inputs', m_inputs[i])
    /\ av_hist' = [av_hist EXCEPT ![i] = "none"]
    /\ UNCHANGED fileOk

\* The file behind a URL is replaced.
FileChange(u) ==
    /\ fileOk' = [fileOk EXCEPT ![u] = ~@]
    /\ av_hist' = [i \in Inputs |->
                     IF m_inputs[i] = u /\ av_hist[i] = "set" THEN "none" ELSE av_hist[i]]
    /\ UNCHANGED <<m_inputs, m_frames>>

(* ------------------------------ SoftInput ----------------------------- *)

isSyncEnabled(i) == m_sync_enabled[i] /\ m_frame_sync_enabled[i]

\* pushInput, first locked section: the queue-full test.
QueueFull(q) == Len(q) = kMaxQueueSize

\* Mutant of SyncAfterCheck: a full queue is cleared but sync stays enabled.
SyncAfterCheck_Keep(full, syncEnabled) == syncEnabled

\* pushInput, first locked section: m_sync_enabled after the queue-full test.
SyncAfterCheck(full, syncEnabled) == IF full THEN FALSE ELSE syncEnabled

\* Mutant of EnqueueFrame: the queue is cleared only for a demoted input.
EnqueueFrame_ClearDemoted(q, syncEnabled, frameSyncEnabled, f) ==
    (IF ~syncEnabled THEN <<>> ELSE q) \o <<f>>

EnqueueFrame_Front(q, syncEnabled, frameSyncEnabled, f) ==
    <<f>> \o (IF ~syncEnabled \/ ~frameSyncEnabled THEN <<>> ELSE q)

\* pushInput, second locked section: the queue after the enqueue.
EnqueueFrame(q, syncEnabled, frameSyncEnabled, f) ==
    (IF ~syncEnabled \/ ~frameSyncEnabled THEN <<>> ELSE q) \o <<f>>

\* Mutant of PopFront: the front is always removed.
PopFront_Always(q) == Tail(q)

\* popInput's queue effect: the front is removed only when it is not the last.
PopFront(q) == IF Len(q) > 1 THEN Tail(q) ELSE q

\* Mutant of DropUntil: a front equal to the target is dropped too.
RECURSIVE DropUntil_Strict(_, _)
DropUntil_Strict(q, target) ==
    IF q[1].sync_timeStamp > target THEN q
    ELSE IF Len(q) = 1 THEN q
    ELSE DropUntil_Strict(Tail(q), target)

\* get_sync_frame's loop on a non-empty queue.
RECURSIVE DropUntil(_, _)
DropUntil(q, target) ==
    IF q[1].sync_timeStamp >= target THEN q
    ELSE IF Len(q) = 1 THEN q
    ELSE DropUntil(Tail(q), target)

\* get_sync_frame's queue effect.
SyncAdvance(q, target) == IF target = -1 THEN q ELSE DropUntil(q, target)

\* Mutant of SetActive: activation restores the input's sync mode.
SetActive_Restore(i, active) ==
    /\ m_active' = [m_active EXCEPT ![i] = active]
    /\ m_frame_queue' = [m_frame_queue EXCEPT ![i] = IF active THEN @ ELSE <<>>]
    /\ m_sync_enabled' = [m_sync_enabled EXCEPT ![i] = IF active THEN TRUE ELSE @]
    /\ UNCHANGED <<m_frame_sync_enabled, poolDim, pushVars, readVars>>

\* setActive(active)
SetActive(i, active) ==
    /\ m_active' = [m_active EXCEPT ![i] = active]
    /\ m_frame_queue' = [m_frame_queue EXCEPT ![i] = IF active THEN @ ELSE <<>>]
    /\ UNCHANGED <<m_sync_enabled, m_frame_sync_enabled, poolDim, pushVars, readVars>>

\* Pusher threads are interchangeable: a call is taken by the first idle one.
FirstIdle(p) == pc[p] = "idle" /\ \A q \in Pushers : q < p => pc[q] # "idle"

\* pushInput up to the end of its first locked section. A call on an inactive
\* input returns at once.
PushCheck(p, i, ts) ==
    /\ FirstIdle(p)
    /\ IF ~m_active[i]
       THEN UNCHANGED <<inputVars, pushVars>>
       ELSE /\ nextId <= MaxPush
            /\ nextId' = nextId + 1
            /\ pc' = [pc EXCEPT ![p] = "convert"]
            /\ pframe' = [pframe EXCEPT ![p] =
                             [input |-> i, id |-> nextId, sync_timeStamp |-> ts,
                              pooled |-> FALSE, full |-> QueueFull(m_frame_queue[i])]]
            /\ m_sync_enabled' = [m_sync_enabled EXCEPT ![i] =
                                      SyncAfterCheck(QueueFull(m_frame_queue[i]), @)]
            /\ IF QueueFull(m_frame_queue[i])
               THEN /\ m_frame_queue' = [m_frame_queue EXCEPT ![i] = <<>>]
                    /\ overflowed' = [overflowed EXCEPT ![i] = TRUE]
               ELSE UNCHANGED <<m_frame_queue, overflowed>>
            /\ UNCHANGED <<m_active, m_frame_sync_enabled>>
    /\ UNCHANGED <<poolDim, readVars>>

\* pushInput between its locked sections: getFreeBuffer(width, height) and the
\* conversion into the buffer. The frame's dimensions are first read here.
PushConvert(p, dim) ==
    /\ pc[p] = "convert"
    /\ LET i == pframe[p].input
       IN IF HasFreeBuffer(i, dim)
          THEN /\ poolDim' = [poolDim EXCEPT ![i] = dim]
               /\ pc' = [pc EXCEPT ![p] = "enqueue"]
               /\ IF PoolResizes(i, dim)
                  THEN /\ m_frame_queue' = [m_frame_queue EXCEPT ![i] = DroppedSeq(@)]
                       /\ pframe' = [q \in Pushers |->
                             IF q = p THEN [pframe[p] EXCEPT !.pooled = TRUE]
                             ELSE IF pframe[q].input = i THEN Dropped(pframe[q])
                             ELSE pframe[q]]
                       /\ ret' = DroppedHeld(ret, i)
                       /\ front_frame' = DroppedHeld(front_frame, i)
                  ELSE /\ pframe' = [pframe EXCEPT ![p].pooled = TRUE]
                       /\ UNCHANGED <<m_frame_queue, ret, front_frame>>
          ELSE /\ pc' = [pc EXCEPT ![p] = "idle"]
               /\ pframe' = [pframe EXCEPT ![p] = IdlePush]
               /\ UNCHANGED <<poolDim, m_frame_queue, ret, front_frame>>
    /\ UNCHANGED <<m_active, m_sync_enabled, m_frame_sync_enabled, nextId, overflowed, rop>>

PushEnqueue_NoActiveTest(p, syncBit) ==
    /\ pc[p] = "enqueue"
    /\ m_frame_sync_enabled' = [m_frame_sync_enabled EXCEPT ![pframe[p].input] = syncBit]
    /\ m_frame_queue' = [m_frame_queue EXCEPT ![pframe[p].input] =
           EnqueueFrame(@, m_sync_enabled[pframe[p].input], syncBit, PushedFrame(p))]
    /\ pc' = [pc EXCEPT ![p] = "idle"]
    /\ pframe' = [pframe EXCEPT ![p] = IdlePush]
    /\ UNCHANGED <<m_active, m_sync_enabled, poolDim, nextId, overflowed, readVars>>

\* pushInput's second locked section. The frame's sync_enabled bit is first
\* read here.
PushEnqueue(p, syncBit) ==
    /\ pc[p] = "enqueue"
    /\ LET i == pframe[p].input
       IN IF m_active[i]
          THEN /\ m_frame_sync_enabled' = [m_frame_sync_enabled EXCEPT ![i] = syncBit]
               /\ m_frame_queue' = [m_frame_queue EXCEPT ![i] =
                      EnqueueFrame(@, m_sync_enabled[i], syncBit, PushedFrame(p))]
          ELSE UNCHANGED <<m_frame_sync_enabled, m_frame_queue>>
    /\ pc' = [pc EXCEPT ![p] = "idle"]
    /\ pframe' = [pframe EXCEPT ![p] = IdlePush]
    /\ UNCHANGED <<m_active, m_sync_enabled, poolDim, nextId, overflowed, readVars>>

\* popInput, called by reader thread g.
PopInput(g, i) ==
    /\ IF ~m_active[i] \/ m_frame_queue[i] = <<>>
       THEN /\ ret' = [ret EXCEPT ![g] = NullFrame]
            /\ UNCHANGED m_frame_queue
       ELSE /\ ret' = [ret EXCEPT ![g] = <<Head(m_frame_queue[i])>>]
            /\ m_frame_queue' = [m_frame_queue EXCEPT ![i] = PopFront(@)]
    /\ rop' = [rop EXCEPT ![g] = [op |-> "popInput",
                                  removed |-> Len(m_frame_queue[i]) - Len(m_frame_queue'[i])]]
    /\ UNCHANGED <<m_active, m_sync_enabled, m_frame_sync_enabled, poolDim, pushVars,
                   front_frame>>

\* get_sync_frame(sync_timeStamp), called by reader thread g.
GetSyncFrame(g, i, target) ==
    /\ IF ~m_active[i] \/ m_frame_queue[i] = <<>>
       THEN /\ ret' = [ret EXCEPT ![g] = NullFrame]
            /\ UNCHANGED m_frame_queue
       ELSE /\ m_frame_queue' = [m_frame_queue EXCEPT ![i] = SyncAdvance(@, target)]
            /\ ret' = [ret EXCEPT ![g] = <<Head(m_frame_queue'[i])>>]
    /\ rop' = [rop EXCEPT ![g] = [op |-> "get_sync_frame",
                                  removed |-> Len(m_frame_queue[i]) - Len(m_frame_queue'[i])]]
    /\ UNCHANGED <<m_active, m_sync_enabled, m_frame_sync_enabled, poolDim, pushVars,
                   front_frame>>

\* The reader drops the frame it holds (end of a region's loop iteration).
Release(g) ==
    /\ rop[g] # NoRead
    /\ ret' = [ret EXCEPT ![g] = NullFrame]
    /\ rop' = [rop EXCEPT ![g] = NoRead]
    /\ UNCHANGED <<inputVars, poolDim, pushVars, front_frame>>

(* -------------------------- SoftFrameGenerator ------------------------- *)

\* SoftVideoCompositor::SoftVideoCompositor: the bands of the two generators.
GenBands == << [maxFps |-> 60, minFps |-> 15], [maxFps |-> 48, minFps |-> 6] >>

\* The constructor's loop: doubling fps from the minimum reaches max exactly.
RECURSIVE ReachesMax(_, _)
ReachesMax(fps, max) ==
    IF fps > max THEN FALSE
    ELSE IF fps = max THEN TRUE
    ELSE ReachesMax(2 * fps, max)

m_minSupportedFps(g) == GenBands[g].minFps

\* Mutant of SupportedMax: the maximum is kept whatever the minimum.
SupportedMax_Keep(maxFps, minFps) == maxFps

\* m_maxSupportedFps after the constructor: a maximum that is not
\* minimum * 2^k collapses to the minimum.
SupportedMax(maxFps, minFps) ==
    IF ReachesMax(minFps, maxFps) THEN maxFps ELSE minFps

m_maxSupportedFps(g) == SupportedMax(GenBands[g].maxFps, GenBands[g].minFps)

m_counterMax(g) == m_maxSupportedFps(g) \div m_minSupportedFps(g)

\* m_outputs.resize(max / min): the bucket indices of generator g.
Buckets(g) == 0..(m_maxSupportedFps(g) \div m_minSupportedFps(g) - 1)

RECURSIVE DoublesTo(_, _, _)
DoublesTo(n, max, fps) ==
    IF n > max THEN FALSE
    ELSE IF n = fps THEN TRUE
    ELSE DoublesTo(2 * n, max, fps)

isSupported_RangeOnly(g, fps) ==
    ~(fps > m_maxSupportedFps(g) \/ fps < m_minSupportedFps(g))

\* isSupported of a generator whose constructor left the band min..max.
Supports(max, min, fps) ==
    IF fps > max \/ fps < min THEN FALSE
    ELSE DoublesTo(min, max, fps)

isSupported(g, fps) == Supports(m_maxSupportedFps(g), m_minSupportedFps(g), fps)

BucketIndex_FromMin(g, fps) == fps \div m_minSupportedFps(g) - 1

\* int index = m_maxSupportedFps / fps - 1
BucketIndex(g, fps) == m_maxSupportedFps(g) \div fps - 1

Output(fps, dst) == [fps |-> fps, dest |-> dst]

\* SoftFrameGenerator::addOutput: m_outputs after the push_back.
GenAddOutput(g, fps, dst) ==
    [m_outputs EXCEPT ![g][BucketIndex(g, fps)] = Append(@, Output(fps, dst))]

HasDest(g, b, dst) == \E k \in 1..Len(m_outputs[g][b]) : m_outputs[g][b][k].dest = dst

RegisteredIn(g, dst) == \E b \in DOMAIN m_outputs[g] : HasDest(g, b, dst)

FirstBucket(g, dst) == CHOOSE b \in DOMAIN m_outputs[g] :
    HasDest(g, b, dst) /\ \A c \in DOMAIN m_outputs[g] : HasDest(g, c, dst) => b <= c

FirstAt(q, dst) == CHOOSE k \in 1..Len(q) :
    q[k].dest = dst /\ \A j \in 1..Len(q) : q[j].dest = dst => k <= j

EraseAt(q, k) == [j \in 1..(Len(q) - 1) |-> IF j < k THEN q[j] ELSE q[j + 1]]

\* Mutant of GenRemoveOutput: nothing is erased.
GenRemoveOutput_Keep(g, dst) == m_outputs

\* SoftFrameGenerator::removeOutput on a generator that holds dst: m_outputs
\* after erasing the first entry of the first bucket that names dst.
GenRemoveOutput(g, dst) ==
    [m_outputs EXCEPT ![g][FirstBucket(g, dst)] = EraseAt(@, FirstAt(@, dst))]

\* The entries of buckets 0..b of one generator.
RECURSIVE SumLen(_, _)
SumLen(buckets, b) ==
    IF b < 0 THEN 0 ELSE Len(buckets[b]) + SumLen(buckets, b - 1)

NumOutputs(g) == SumLen(m_outputs[g], m_counterMax(g) - 1)

TotalOutputs == NumOutputs(1) + NumOutputs(2)

\* Bucket b of generator g is served on this tick.
Due_Always(g, b) == TRUE

Due(g, b) == m_counter[g] % (b + 1) = 0

\* The first locked section of onTimeout.
hasValidOutput(g) == \E b \in DOMAIN m_outputs[g] : Due(g, b) /\ Len(m_outputs[g][b]) > 0

\* The destinations onFrame is called on by the second locked section.
Served(g) == { dst \in Dests : \E b \in DOMAIN m_outputs[g] : Due(g, b) /\ HasDest(g, b, dst) }

NextCounter(g) == [m_counter EXCEPT ![g] = (m_counter[g] + 1) % m_counterMax(g)]

NoHist == [since |-> -1, gap |-> 0, skipped |-> FALSE, miss |-> FALSE]

\* The record of every destination after a tick of generator g that called
\* onFrame on the destinations in got; failed: the tick found no canvas buffer.
HistAfterTick(g, got, failed) == [dst \in Dests |->
    IF dst \in got
    THEN [since |-> 0,
          gap |-> IF hist[dst].since >= 0 THEN hist[dst].since + 1 ELSE 0,
          skipped |-> hist[dst].miss,
          miss |-> FALSE]
    ELSE IF RegisteredIn(g, dst) /\ hist[dst].since >= 0
    THEN [hist[dst] EXCEPT !.since = @ + 1,
                           !.miss = @ \/ (failed /\ dst \in Served(g))]
    ELSE hist[dst]]

\* No onTimeout has completed yet.
NoTick == [g |-> 0, failed |-> FALSE, afterFail |-> FALSE, advanced |-> FALSE,
           got |-> {}, due |-> {}, regd |-> {}, failing |-> {}]

\* The destinations a client holds registered with generator g at a rate
\* whose period divides the tick counter.
DueRegistered(g) ==
    { dst \in Dests : /\ registered[dst] # 0
                      /\ isSupported(g, registered[dst])
                      /\ \A h \in Gens : isSupported(h, registered[dst]) => g <= h
                      /\ m_counter[g] % (m_maxSupportedFps(g) \div registered[dst]) = 0 }

\* The record of an onTimeout of generator g that ends with this step:
\* failed: layout() found no canvas buffer; got: the destinations onFrame was
\* called on; failing: the generators whose last onTimeout failed.
TickDone(g, failed, got) ==
    [g |-> g, failed |-> failed, afterFail |-> g \in tick.failing,
     advanced |-> m_counter'[g] = (m_counter[g] + 1) % m_counterMax(g),
     got |-> got, due |-> DueRegistered(g),
     regd |-> { dst \in Dests : registered[dst] # 0 },
     failing |-> IF failed THEN tick.failing \cup {g} ELSE tick.failing \ {g}]

\* SoftFrameGenerator::SoftFrameGenerator for both generators.
InitGenerators ==
    /\ m_outputs = [g \in Gens |-> [b \in Buckets(g) |-> <<>>]]
    /\ m_counter = [g \in Gens |-> 0]
    /\ t_pc = [g \in Gens |-> "idle"]
    /\ m_newLayout = [g \in Gens |-> <<>>]
    /\ m_configureChanged = [g \in Gens |-> FALSE]
    /\ g_layout = [g \in Gens |-> <<>>]
    /\ upd = <<>>
    /\ addRet = "none"
    /\ latest = [g \in Gens |-> <<>>]
    /\ accepted = {}
    /\ delivered = {}
    /\ hist = [dst \in Dests |-> NoHist]
    /\ fails = 0
    /\ obtained = [g \in Gens |-> 0]
    /\ registered = [dst \in Dests |-> 0]
    /\ tick = NoTick
    /\ result = <<>>
    /\ d_pc = 0
    /\ running = [g \in Gens |-> TRUE]

\* The generators that accept fps, in the order of the compositor's loop.
Accepting(fps) == { g \in Gens : isSupported(g, fps) }

AddOutput_Fallback(fps, dst) ==
    /\ addRet' = "true"
    /\ TotalOutputs < MaxOutputs
    /\ m_outputs' = [m_outputs EXCEPT ![1][0] = Append(@, Output(fps, dst))]
    /\ UNCHANGED <<m_counter, t_pc, layoutVars, coreVars, tickVars, orderVars, extVars>>

\* SoftVideoCompositor::addOutput: the first generator that supports fps
\* registers dst; false when none does.
AddOutput(fps, dst) ==
    /\ IF Accepting(fps) = {}
       THEN /\ addRet' = "false"
            /\ UNCHANGED m_outputs
       ELSE LET g == CHOOSE x \in Accepting(fps) : \A y \in Accepting(fps) : x <= y IN
            /\ TotalOutputs < MaxOutputs
            /\ m_outputs' = GenAddOutput(g, fps, dst)
            /\ addRet' = "true"
    /\ UNCHANGED <<m_counter, t_pc, layoutVars, coreVars, tickVars, orderVars, extVars>>

\* SoftVideoCompositor::removeOutput: the first generator that holds dst
\* erases one entry; false when none holds it.
RemoveOutput(dst) ==
    /\ IF \E g \in Gens : RegisteredIn(g, dst)
       THEN LET g == CHOOSE x \in Gens :
                    RegisteredIn(x, dst) /\ \A y \in Gens : RegisteredIn(y, dst) => x <= y IN
            m_outputs' = GenRemoveOutput(g, dst)
       ELSE UNCHANGED m_outputs
    /\ UNCHANGED <<addRet, m_counter, t_pc, layoutVars, coreVars, tickVars, orderVars, extVars>>

\* onTimeout up to the test of hasValidOutput; without a valid output the
\* tick ends here with the counter advanced.
TickCheck(g) ==
    /\ running[g]
    /\ t_pc[g] = "idle"
    /\ IF hasValidOutput(g)
       THEN /\ t_pc' = [t_pc EXCEPT ![g] = "reconfigure"]
            /\ UNCHANGED m_counter
       ELSE /\ m_counter' = NextCounter(g)
            /\ UNCHANGED t_pc
    /\ UNCHANGED <<m_outputs, addRet, layoutVars, coreVars, tickVars, orderVars, extVars>>

\* SoftFrameGenerator::reconfigureIfNeeded, the first step of generateFrame.
Reconfigure(g) ==
    /\ t_pc[g] = "reconfigure"
    /\ t_pc' = [t_pc EXCEPT ![g] = "layout"]
    /\ IF m_configureChanged[g]
       THEN /\ g_layout' = [g_layout EXCEPT ![g] = m_newLayout[g]]
            /\ m_configureChanged' = [m_configureChanged EXCEPT ![g] = FALSE]
       ELSE UNCHANGED <<g_layout, m_configureChanged>>
    /\ UNCHANGED <<m_outputs, m_counter, addRet, m_newLayout, upd, latest, coreVars,
                   tickVars, orderVars, extVars>>

\* The destinations a tick of generator g calls onFrame on: those of the due
\* buckets when layout() found a canvas buffer (gotBuffer), none otherwise.
Got(g, gotBuffer) == IF gotBuffer THEN Served(g) ELSE {}

\* Mutant of TickDeliver: the counter advances only when a frame was composed.
TickDeliver_CountDelivered(g, gotBuffer) ==
    /\ t_pc[g] = "layout"
    /\ t_pc' = [t_pc EXCEPT ![g] = "idle"]
    /\ m_counter' = IF gotBuffer THEN NextCounter(g) ELSE m_counter
    /\ UNCHANGED <<m_outputs, addRet, layoutVars, coreVars, tickVars, orderVars, extVars>>

\* layout() and the rest of onTimeout: the counter advances whether or not
\* a frame was composed and delivered.
TickDeliver(g, gotBuffer) ==
    /\ t_pc[g] = "layout"
    /\ t_pc' = [t_pc EXCEPT ![g] = "idle"]
    /\ m_counter' = NextCounter(g)
    /\ UNCHANGED <<m_outputs, addRet, layoutVars, coreVars, tickVars, orderVars, extVars>>

\* SoftFrameGenerator::updateLayoutSolution.
UpdateLayoutSolution_NoFlag(g, solution) ==
    /\ m_newLayout' = [m_newLayout EXCEPT ![g] = solution]
    /\ latest' = [latest EXCEPT ![g] = solution]
    /\ UNCHANGED m_configureChanged

UpdateLayoutSolution(g, solution) ==
    /\ m_newLayout' = [m_newLayout EXCEPT ![g] = solution]
    /\ m_configureChanged' = [m_configureChanged EXCEPT ![g] = TRUE]
    /\ latest' = [latest EXCEPT ![g] = solution]

\* SoftVideoCompositor::updateLayoutSolution: the call on the first generator.
UpdateBegin(solution) ==
    /\ upd = <<>>
    /\ UpdateLayoutSolution(1, solution)
    /\ upd' = << [layout |-> solution, next |-> 2] >>
    /\ UNCHANGED <<g_layout, outVars, coreVars, tickVars, orderVars, extVars>>

\* ... and the calls on the generators after it.
UpdateNext ==
    /\ upd # <<>>
    /\ UpdateLayoutSolution(upd[1].next, upd[1].layout)
    /\ upd' = IF upd[1].next = NumGenerators THEN <<>>
              ELSE << [upd[1] EXCEPT !.next = @ + 1] >>
    /\ UNCHANGED <<g_layout, outVars, coreVars, tickVars, orderVars, extVars>>

(* ------------------- specification of one SoftInput ------------------- *)

\* Targets a generator may pass to get_sync_frame.
SyncTargets == {-1} \cup 1..MaxPush

\* SoftInput::SoftInput, then nothing pushed yet; readers: the threads that
\* call popInput and get_sync_frame; a: the arguments of the function the
\* specification applies, if it applies one.
InitArgs(readers, a) ==
    /\ m_active = [i \in Inputs |-> FALSE]
    /\ m_sync_enabled = [i \in Inputs |-> TRUE]
    /\ m_frame_sync_enabled = [i \in Inputs |-> FALSE]
    /\ m_frame_queue = [i \in Inputs |-> <<>>]
    /\ poolDim = [i \in Inputs |-> 0]
    /\ pc = [p \in Pushers |-> "idle"]
    /\ pframe = [p \in Pushers |-> IdlePush]
    /\ nextId = 1
    /\ overflowed = [i \in Inputs |-> FALSE]
    /\ ret = [g \in readers |-> NullFrame]
    /\ rop = [g \in readers |-> NoRead]
    /\ front_frame = [g \in readers |-> NullFrame]
    /\ m_layout = <<>>
    /\ m_inputs = [i \in Inputs |-> NoUrl]
    /\ m_frames = [u \in Urls |-> "none"]
    /\ fileOk = [u \in Urls |-> TRUE]
    /\ av_hist = [i \in Inputs |-> "none"]
    /\ g_pc = "idle"
    /\ g_it = 1
    /\ min_sync_timeStamp = -1
    /\ max_sync_timeStamp = -1
    /\ capable = {}
    /\ painted = <<>>
    /\ envLeft = 0
    /\ scenario = "input"
    /\ enq_order = <<>>
    /\ args = a
    /\ InitGenerators

InitWith(readers) == InitArgs(readers, <<>>)

Init == InitWith(Readers)

\* All callers work on input 1; the sync timestamp of a frame is the number
\* of its call (a per-input increasing timestamp). No composition runs.
Calls ==
    \/ \E b \in BOOLEAN : SetActive(1, b)
    \/ \E p \in Pushers : PushCheck(p, 1, nextId)
    \/ \E p \in Pushers, d \in Dims : PushConvert(p, d)
    \/ \E p \in Pushers, s \in BOOLEAN : PushEnqueue(p, s)
    \/ \E g \in Readers : PopInput(g, 1)
    \/ \E g \in Readers, t \in SyncTargets : GetSyncFrame(g, 1, t)
    \/ \E g \in Readers : Release(g)

Next == Calls /\ UNCHANGED <<tickVars, genVars>>

Spec == Init /\ [][Next]_vars

(* -------------------- SoftFrameGenerator::layout_regions -------------- *)

\* The generator thread is reader thread 1.
G == 1


\* SoftInput::front() and back().
front(i) == IF ~m_active[i] \/ m_frame_queue[i] = <<>> THEN NullFrame
            ELSE <<m_frame_queue[i][1]>>

back(i) == IF ~m_active[i] \/ m_frame_queue[i] = <<>> THEN NullFrame
           ELSE <<m_frame_queue[i][Len(m_frame_queue[i])]>>

\* Mutant of UpdateMax: the window's upper end follows the largest back.
UpdateMax_Largest(maxTs, backTs) == IF maxTs = -1 \/ maxTs < backTs THEN backTs ELSE maxTs

\* The two updates of the first loop.
UpdateMin(minTs, frontTs) == IF minTs = -1 \/ minTs < frontTs THEN frontTs ELSE minTs

UpdateMax(maxTs, backTs) == IF maxTs = -1 \/ maxTs > backTs THEN backTs ELSE maxTs

\* The three ways the second loop fetches a region's frame.
Mode(minTs, maxTs) ==
    IF maxTs = -1 THEN "unsynced" ELSE IF minTs > maxTs THEN "hold" ELSE "sync"

\* Mutant of FetchTarget: the hold case passes max_sync too.
FetchTarget_NoHold(minTs, maxTs) == maxTs

\* The target getSyncInputFrame is called with.
FetchTarget(minTs, maxTs) == IF minTs > maxTs THEN -1 ELSE maxTs

CurInput == m_layout[g_it]

InTick == g_pc \notin {"idle", "done"}

\* layout_regions starts: the locals of the first loop.
TickBegin ==
    /\ g_pc = "idle"
    /\ g_pc' = "isSyncEnabled"
    /\ g_it' = 1
    /\ min_sync_timeStamp' = -1
    /\ max_sync_timeStamp' = -1
    /\ capable' = {}
    /\ painted' = <<>>
    /\ UNCHANGED <<coreVars, m_layout, avatar, envLeft, scenario>>
    /\ UNCHANGED genVars

\* The first loop moves to the next region, or the second loop starts.
ScanNext ==
    IF g_it < Len(m_layout)
    THEN g_it' = g_it + 1 /\ g_pc' = "isSyncEnabled"
    ELSE g_it' = 1 /\ g_pc' = "isActive"

\* First loop: input->isSyncEnabled().
ScanSyncEnabled ==
    /\ g_pc = "isSyncEnabled"
    /\ IF isSyncEnabled(CurInput)
       THEN g_pc' = "front" /\ g_it' = g_it
       ELSE ScanNext
    /\ UNCHANGED <<coreVars, m_layout, avatar, min_sync_timeStamp, max_sync_timeStamp,
                   capable, painted, envLeft, scenario>>
    /\ UNCHANGED genVars

\* First loop: input->front().
ScanFront ==
    /\ g_pc = "front"
    /\ front_frame' = [front_frame EXCEPT ![G] = front(CurInput)]
    /\ g_pc' = "back"
    /\ UNCHANGED <<inputVars, poolDim, pushVars, ret, rop, m_layout, avatar, g_it,
                   min_sync_timeStamp, max_sync_timeStamp, capable, painted, envLeft, scenario>>
    /\ UNCHANGED genVars

\* First loop: input->back(), the null test and the two updates; the
\* iteration's locals are dropped.
ScanBack ==
    /\ g_pc = "back"
    /\ LET bk == back(CurInput)
           fr == front_frame[G]
       IN IF fr = NullFrame \/ bk = NullFrame
          THEN UNCHANGED <<min_sync_timeStamp, max_sync_timeStamp, capable>>
          ELSE /\ min_sync_timeStamp' = UpdateMin(min_sync_timeStamp, fr[1].sync_timeStamp)
               /\ max_sync_timeStamp' = UpdateMax(max_sync_timeStamp, bk[1].sync_timeStamp)
               /\ capable' = capable \cup {g_it}
    /\ front_frame' = [front_frame EXCEPT ![G] = NullFrame]
    /\ ScanNext
    /\ UNCHANGED <<inputVars, poolDim, pushVars, ret, rop, m_layout, avatar, painted,
                   envLeft, scenario>>
    /\ UNCHANGED genVars

\* The second loop has a frame for the region (scaled next) or none (continue).
FetchDone(f) ==
    /\ painted' = Append(painted, f)
    /\ IF f # NullFrame
       THEN g_pc' = "scale" /\ g_it' = g_it
       ELSE IF g_it < Len(m_layout)
            THEN g_it' = g_it + 1 /\ g_pc' = "isActive"
            ELSE g_it' = g_it /\ g_pc' = "done"

\* Second loop: getInputFrame / getSyncInputFrame read input->isActive().
FetchIsActive ==
    /\ g_pc = "isActive"
    /\ IF m_active[CurInput]
       THEN /\ g_pc' = IF Mode(min_sync_timeStamp, max_sync_timeStamp) = "unsynced"
                      THEN "popInput" ELSE "fetchSyncEnabled"
            /\ UNCHANGED <<g_it, painted, ret, m_frames, av_hist>>
       ELSE /\ ret' = [ret EXCEPT ![G] = getAvatarFrame(CurInput)]
            /\ m_frames' = FramesAfterGet(CurInput)
            /\ av_hist' = HistAfterGet(CurInput)
            /\ FetchDone(getAvatarFrame(CurInput))
    /\ UNCHANGED <<inputVars, poolDim, pushVars, rop, front_frame, m_layout, m_inputs, fileOk,
                   min_sync_timeStamp, max_sync_timeStamp, capable, envLeft, scenario>>
    /\ UNCHANGED genVars

\* Second loop: getSyncInputFrame reads input->isSyncEnabled().
FetchSyncEnabled ==
    /\ g_pc = "fetchSyncEnabled"
    /\ g_pc' = IF isSyncEnabled(CurInput) THEN "get_sync_frame" ELSE "popInput"
    /\ UNCHANGED <<coreVars, m_layout, avatar, g_it, min_sync_timeStamp, max_sync_timeStamp,
                   capable, painted, envLeft, scenario>>
    /\ UNCHANGED genVars

\* Second loop: input->popInput().
FetchPop ==
    /\ g_pc = "popInput"
    /\ PopInput(G, CurInput)
    /\ FetchDone(ret'[G])
    /\ UNCHANGED <<m_layout, avatar, min_sync_timeStamp, max_sync_timeStamp, capable,
                   envLeft, scenario>>
    /\ UNCHANGED genVars

\* Second loop: input->get_sync_frame(sync_timeStamp).
FetchGet ==
    /\ g_pc = "get_sync_frame"
    /\ GetSyncFrame(G, CurInput, FetchTarget(min_sync_timeStamp, max_sync_timeStamp))
    /\ FetchDone(ret'[G])
    /\ UNCHANGED <<m_layout, avatar, min_sync_timeStamp, max_sync_timeStamp, capable,
                   envLeft, scenario>>
    /\ UNCHANGED genVars

\* Second loop: the frame is scaled into the canvas and dropped.
Scale ==
    /\ g_pc = "scale"
    /\ ret' = [ret EXCEPT ![G] = NullFrame]
    /\ rop' = [rop EXCEPT ![G] = NoRead]
    /\ IF g_it < Len(m_layout)
       THEN g_it' = g_it + 1 /\ g_pc' = "isActive"
       ELSE g_it' = g_it /\ g_pc' = "done"
    /\ UNCHANGED <<inputVars, poolDim, pushVars, front_frame, m_layout, avatar,
                   min_sync_timeStamp, max_sync_timeStamp, capable, painted, envLeft, scenario>>
    /\ UNCHANGED genVars

GeneratorStep ==
    \/ TickBegin
    \/ ScanSyncEnabled
    \/ ScanFront
    \/ ScanBack
    \/ FetchIsActive
    \/ FetchSyncEnabled
    \/ FetchPop
    \/ FetchGet
    \/ Scale

(* --------------- calls that interleave with a composition ------------- *)

TickOnly == <<m_layout, avatar, g_pc, g_it, min_sync_timeStamp, max_sync_timeStamp,
              capable, painted, scenario>>

EnvSetActive(i, b) ==
    /\ InTick /\ envLeft > 0
    /\ SetActive(i, b)
    /\ envLeft' = envLeft - 1
    /\ UNCHANGED TickOnly
    /\ UNCHANGED genVars

EnvPushCheck(i, ts) ==
    /\ InTick /\ envLeft > 0
    /\ PushCheck(1, i, ts)
    /\ envLeft' = envLeft - 1
    /\ UNCHANGED TickOnly
    /\ UNCHANGED genVars

\* The pushed frames have the dimensions of the frames before them.
EnvPushConvert ==
    /\ InTick
    /\ PushConvert(1, poolDim[pframe[1].input])
    /\ UNCHANGED <<TickOnly, envLeft>>
    /\ UNCHANGED genVars

EnvPushEnqueue(s) ==
    /\ InTick
    /\ PushEnqueue(1, s)
    /\ UNCHANGED <<TickOnly, envLeft>>
    /\ UNCHANGED genVars

(* ------------------ specification of one composition ------------------ *)

TsRange == (0 - MaxNegTs)..MaxTs

\* The queues of at most n frames with sync timestamps in TsRange.
TsSeqs(n) == UNION { [1..k -> TsRange] : k \in 0..n }

\* A full queue.
FullTs == [k \in 1..kMaxQueueSize |-> IF k <= MaxTs THEN k - 1 ELSE MaxTs]

\* The states pushInput, popInput, get_sync_frame and setActive leave a
\* SoftInput in: an inactive input has an empty queue, and a queue of two or
\* more frames belongs to a sync-enabled input.
InputStates ==
    { [active |-> FALSE, sync |-> s, fsync |-> f, ts |-> <<>>] : s, f \in BOOLEAN }
    \cup { st \in [active : {TRUE}, sync : BOOLEAN, fsync : BOOLEAN, ts : TsSeqs(MaxInitLen)] :
             Len(st.ts) >= 2 => (st.sync /\ st.fsync) }
    \cup { [active |-> TRUE, sync |-> TRUE, fsync |-> TRUE, ts |-> FullTs] }

Layouts == { <<1>>, <<1, 2>>, <<2, 1>> }

QueueOf(i, ts) == [k \in 1..Len(ts) |-> Frame(i, k, ts[k], TRUE)]

InitFromWith(st, lay, av, sc, readers) ==
    /\ m_active = [i \in Inputs |-> st[i].active]
    /\ m_sync_enabled = [i \in Inputs |-> st[i].sync]
    /\ m_frame_sync_enabled = [i \in Inputs |-> st[i].fsync]
    /\ m_frame_queue = [i \in Inputs |-> QueueOf(i, st[i].ts)]
    /\ poolDim = [i \in Inputs |-> 1]
    /\ pc = [p \in Pushers |-> "idle"]
    /\ pframe = [p \in Pushers |-> IdlePush]
    /\ nextId = kMaxQueueSize + 1
    /\ overflowed = [i \in Inputs |-> ~st[i].sync]
    /\ ret = [g \in readers |-> NullFrame]
    /\ rop = [g \in readers |-> NoRead]
    /\ front_frame = [g \in readers |-> NullFrame]
    /\ m_layout = lay
    /\ m_inputs = av
    /\ m_frames = [u \in Urls |-> "none"]
    /\ fileOk = [u \in Urls |-> TRUE]
    /\ av_hist = [i \in Inputs |-> "none"]
    /\ g_pc = "idle"
    /\ g_it = 1
    /\ min_sync_timeStamp = -1
    /\ max_sync_timeStamp = -1
    /\ capable = {}
    /\ painted = <<>>
    /\ envLeft = MaxEnv
    /\ scenario = sc
    /\ enq_order = [k \in 1..Len(st[1].ts) |-> k]
    /\ args = <<>>
    /\ InitGenerators

InitFrom(st, lay, av, sc) == InitFromWith(st, lay, av, sc, Readers)

\* Scenario S3 of the specification: two sync-enabled inputs, both in the layout.
S3State == [i \in Inputs |->
    IF i = 1 THEN [active |-> TRUE, sync |-> TRUE, fsync |-> TRUE, ts |-> <<100, 200, 300, 400>>]
    ELSE IF i = 2 THEN [active |-> TRUE, sync |-> TRUE, fsync |-> TRUE, ts |-> <<250, 350, 450>>]
    ELSE [active |-> FALSE, sync |-> TRUE, fsync |-> FALSE, ts |-> <<>>]]

\* Input 1 has an avatar, the others none.
Avatars == [i \in Inputs |-> IF i = 1 THEN 1 ELSE NoUrl]

InitTick ==
    \/ \E st \in [Inputs -> InputStates], lay \in Layouts : InitFrom(st, lay, Avatars, "any")
    \/ InitFrom(S3State, <<1, 2>>, Avatars, "S3")

NextTick ==
    \/ GeneratorStep
    \/ \E i \in Inputs, b \in BOOLEAN : EnvSetActive(i, b)
    \/ \E i \in Inputs, ts \in TsRange : EnvPushCheck(i, ts)
    \/ EnvPushConvert
    \/ \E s \in BOOLEAN : EnvPushEnqueue(s)

SpecTick == InitTick /\ [][NextTick]_vars

(* ------------- specification of the reads of one SoftInput ------------ *)

\* The states of one SoftInput with at most MaxReadLen queued frames.
ReadStates ==
    { [active |-> FALSE, sync |-> s, fsync |-> f, ts |-> <<>>] : s, f \in BOOLEAN }
    \cup { st \in [active : {TRUE}, sync : BOOLEAN, fsync : BOOLEAN, ts : TsSeqs(MaxReadLen)] :
             Len(st.ts) >= 2 => (st.sync /\ st.fsync) }

\* The targets get_sync_frame is called with: -1, the queued timestamps and
\* one beyond them.
ReadTargets == (0 - MaxNegTs)..(MaxTs + 1)

Inactive == [active |-> FALSE, sync |-> TRUE, fsync |-> FALSE, ts |-> <<>>]

InitRead ==
    \E st \in ReadStates :
        InitFrom([i \in Inputs |-> IF i = 1 THEN st ELSE Inactive], <<1>>, Avatars, "read")

NextRead ==
    /\ \/ PopInput(G, 1)
       \/ \E t \in ReadTargets : GetSyncFrame(G, 1, t)
       \/ Release(G)
    /\ UNCHANGED <<tickVars, genVars>>

SpecRead == InitRead /\ [][NextRead]_vars

(* ------------- specification of the avatars of inactive inputs -------- *)

\* Start states that make a composition run in each of its modes: an input
\* that is inactive, not sync-enabled, sync-capable with a common window, or
\* sync-capable with its front beyond its back.
AvatarInputStates ==
    { Inactive,
      [active |-> TRUE, sync |-> FALSE, fsync |-> TRUE, ts |-> <<0>>],
      [active |-> TRUE, sync |-> TRUE, fsync |-> TRUE, ts |-> <<0, 1>>],
      [active |-> TRUE, sync |-> TRUE, fsync |-> TRUE, ts |-> <<1, 0>>] }

NoAvatars == [i \in Inputs |-> NoUrl]

InitAvatar ==
    \E st \in [Inputs -> AvatarInputStates], lay \in Layouts :
        InitFrom(st, lay, NoAvatars, "avatar")

\* layout_regions has returned; the generator's next composition may start.
TickEnd ==
    /\ g_pc = "done"
    /\ g_pc' = "idle"
    /\ UNCHANGED <<coreVars, m_layout, avatar, g_it, min_sync_timeStamp, max_sync_timeStamp,
                   capable, painted, envLeft, scenario>>
    /\ UNCHANGED genVars

\* The variables of a composition that the AvatarManager's callers leave alone.
TickLocals == <<m_layout, g_pc, g_it, min_sync_timeStamp, max_sync_timeStamp, capable,
                painted, envLeft, scenario>>

AvatarSet(i, u) == SetAvatar(i, u) /\ UNCHANGED <<coreVars, TickLocals, genVars>>

AvatarUnset(i) == UnsetAvatar(i) /\ UNCHANGED <<coreVars, TickLocals, genVars>>

AvatarFileChange(u) == FileChange(u) /\ UNCHANGED <<coreVars, TickLocals, genVars>>

NextAvatar ==
    \/ GeneratorStep
    \/ TickEnd
    \/ \E i \in Inputs, u \in Urls : AvatarSet(i, u)
    \/ \E i \in Inputs : AvatarUnset(i)
    \/ \E u \in Urls : AvatarFileChange(u)

SpecAvatar == InitAvatar /\ [][NextAvatar]_vars

(* ------------------ specification of the output rates ------------------ *)

\* The rates the compositor is built for, and some it is not.
ListedRates == {6, 12, 24, 48, 15, 30, 60}
OtherRates == {5, 20, 96}

OutAdd(fps, dst) == AddOutput(fps, dst) /\ UNCHANGED obsVars

OutRemove(dst) == RemoveOutput(dst) /\ UNCHANGED obsVars

OutCheck(g) == TickCheck(g) /\ UNCHANGED obsVars

OutReconfigure(g) == Reconfigure(g) /\ UNCHANGED obsVars

OutDeliver(g, gotBuffer) == TickDeliver(g, gotBuffer) /\ UNCHANGED obsVars

NextOut ==
    \/ \E fps \in ListedRates \cup OtherRates, dst \in Dests : OutAdd(fps, dst)
    \/ \E dst \in Dests : OutRemove(dst)
    \/ \E g \in Gens : OutCheck(g)
    \/ \E g \in Gens : OutReconfigure(g)
    \/ \E g \in Gens, gotBuffer \in BOOLEAN : OutDeliver(g, gotBuffer)

SpecOut == Init /\ [][NextOut]_vars

(* ------ specification of a composition racing with deActivateInput ---- *)

\* Input 1 is active with at least one queued frame and has an avatar whose
\* file loads; the only calls that interleave with the composition are
\* setActive(false).
InitFetch ==
    \E st \in [Inputs -> InputStates], lay \in Layouts :
        /\ st[1].active
        /\ Len(st[1].ts) >= 1
        /\ InitFrom(st, lay, Avatars, "fetch")

NextFetch ==
    \/ GeneratorStep
    \/ \E i \in Inputs : EnvSetActive(i, FALSE)

SpecFetch == InitFetch /\ [][NextFetch]_vars

(* -------- specification of compositions in hold while frames arrive --- *)

\* The queues input 1 starts with: one frame, one push short of full, full.
HoldQueues == {<<MaxTs>>, SubSeq(FullTs, 1, kMaxQueueSize - 1), FullTs}

\* The window the first loop computes over a layout of two sync-enabled
\* inputs with frames.
WindowOf(st, lay) ==
    [min |-> UpdateMin(UpdateMin(-1, st[lay[1]].ts[1]), st[lay[2]].ts[1]),
     max |-> UpdateMax(UpdateMax(-1, st[lay[1]].ts[Len(st[lay[1]].ts)]),
                       st[lay[2]].ts[Len(st[lay[2]].ts)])]

\* Both inputs are active and sync-enabled with frames, both are in the
\* layout, and a composition of this state selects hold.
InitHold ==
    \E q1 \in HoldQueues, q2 \in TsSeqs(MaxInitLen) \ {<<>>}, lay \in {<<1, 2>>, <<2, 1>>} :
        LET st == [i \in Inputs |->
                      [active |-> TRUE, sync |-> TRUE, fsync |-> TRUE,
                       ts |-> IF i = 1 THEN q1 ELSE q2]]
        IN /\ Mode(WindowOf(st, lay).min, WindowOf(st, lay).max) = "hold"
           /\ InitFrom(st, lay, NoAvatars, "hold")

\* Input 1 keeps receiving pushInput calls with sync-enabled frames that
\* carry the latest timestamp.
HoldPushCheck(p) == PushCheck(p, 1, MaxTs) /\ UNCHANGED <<tickVars, genVars>>

HoldPushConvert(p, dim) == PushConvert(p, dim) /\ UNCHANGED <<tickVars, genVars>>

HoldPushEnqueue(p) == PushEnqueue(p, TRUE) /\ UNCHANGED <<tickVars, genVars>>

NextHold ==
    \/ GeneratorStep
    \/ TickEnd
    \/ \E p \in Pushers : HoldPushCheck(p)
    \/ \E p \in Pushers, dim \in Dims : HoldPushConvert(p, dim)
    \/ \E p \in Pushers : HoldPushEnqueue(p)

SpecHold == InitHold /\ [][NextHold]_vars

(* ------------- specification of isSupported for any band -------------- *)

\* A generator is constructed with (maxFps, minFps) and asked about fps.
InitBand ==
    \E maxFps \in 1..MaxRate, minFps \in 1..MaxRate, fps \in 0..(MaxRate + 1) :
        InitArgs(Readers, [maxFps |-> maxFps, minFps |-> minFps, fps |-> fps])

\* What stays as it is while a function is applied to args.
CallRest == <<coreVars, tickVars, outVars, layoutVars, orderVars, d_pc, running>>

\* The constructor, then isSupported(fps).
BandIsSupported ==
    /\ result = <<>>
    /\ result' = [max |-> SupportedMax(args.maxFps, args.minFps),
                  supported |-> Supports(SupportedMax(args.maxFps, args.minFps),
                                         args.minFps, args.fps)]
    /\ UNCHANGED <<args, CallRest>>

NextBand == BandIsSupported

SpecBand == InitBand /\ [][NextBand]_vars

(* ------------ specification of the timestamps of a frame -------------- *)

\* layout(): the composed VideoFrame for the clock reading timestamp_ms.
\* The second argument of the constructor is the frame's timestamp().
ComposedFrame(timestamp_ms) ==
    [timestamp |-> (timestamp_ms * 1000) \div 90,
     render_time_ms |-> timestamp_ms,
     ntp_time_ms |-> timestamp_ms]

\* onTimeout: the Frame handed to onFrame.
DeliveredFrame(compositeFrame) ==
    [timeStamp |-> compositeFrame.timestamp, orig_timeStamp |-> compositeFrame.timestamp]

InitStamp ==
    \E timestamp_ms \in 0..MaxClock : InitArgs(Readers, [timestamp_ms |-> timestamp_ms])

\* One composition and its delivery.
StampFrame ==
    /\ result = <<>>
    /\ result' = [compositeFrame |-> ComposedFrame(args.timestamp_ms),
                  frame |-> DeliveredFrame(ComposedFrame(args.timestamp_ms))]
    /\ UNCHANGED <<args, CallRest>>

NextStamp == StampFrame

SpecStamp == InitStamp /\ [][NextStamp]_vars

(* ------------- specification of the geometry of a region -------------- *)

\* composite extent * numerator / denominator.
Portion(extent, f) == (extent * f.numerator) \div f.denominator

\* The cell of a region on the canvas, clipped at the right and bottom edge.
Cell(canvas, rect) ==
    LET x == Portion(canvas.width, rect.left)
        y == Portion(canvas.height, rect.top)
        w == Portion(canvas.width, rect.width)
        h == Portion(canvas.height, rect.height)
    IN  [dst_x |-> x, dst_y |-> y,
         dst_width |-> IF x + w > canvas.width THEN canvas.width - x ELSE w,
         dst_height |-> IF y + h > canvas.height THEN canvas.height - y ELSE h]

\* Mutant of Smaller: the first argument is taken as it is.
Smaller_First(a, b) == a

\* std::min
Smaller(a, b) == IF a < b THEN a ELSE b

\* a / b where the program divides by zero with whatever:
\* the quotient, if any, is not determined by the language.
Quotient(a, b, whatever) == IF b = 0 THEN whatever ELSE a \div b

\* x &= ~1
Even(x) == x - (x % 2)

\* The source and destination rectangles before the alignment.
Rectangles(crop, cell, input, whatever) ==
    LET src_width == IF crop
            THEN Smaller(input.width, Quotient(cell.dst_width * input.height,
                                               cell.dst_height, whatever))
            ELSE input.width
        src_height == IF crop
            THEN Smaller(input.height, Quotient(cell.dst_height * input.width,
                                                cell.dst_width, whatever))
            ELSE input.height
        cropped_dst_width == IF crop THEN cell.dst_width
            ELSE Smaller(cell.dst_width,
                         (input.width * cell.dst_height) \div input.height)
        cropped_dst_height == IF crop THEN cell.dst_height
            ELSE Smaller(cell.dst_height,
                         (input.height * cell.dst_width) \div input.width)
    IN  [src_x |-> IF crop THEN (input.width - src_width) \div 2 ELSE 0,
         src_y |-> IF crop THEN (input.height - src_height) \div 2 ELSE 0,
         src_width |-> src_width,
         src_height |-> src_height,
         dst_x |-> cell.dst_x + (cell.dst_width - cropped_dst_width) \div 2,
         dst_y |-> cell.dst_y + (cell.dst_height - cropped_dst_height) \div 2,
         cropped_dst_width |-> cropped_dst_width,
         cropped_dst_height |-> cropped_dst_height]

\* The eight coordinates handed to I420Scale.
Aligned(r) ==
    [src_x |-> Even(r.src_x), src_y |-> Even(r.src_y),
     src_width |-> Even(r.src_width), src_height |-> Even(r.src_height),
     dst_x |-> Even(r.dst_x), dst_y |-> Even(r.dst_y),
     cropped_dst_width |-> Even(r.cropped_dst_width),
     cropped_dst_height |-> Even(r.cropped_dst_height)]

\* The call divides by zero: crop mode and a cell without width or height.
DividesByZero(crop, cell) == crop /\ (cell.dst_width = 0 \/ cell.dst_height = 0)

\* Fractions in [0, 1], canvases and input sizes.
Fractions == { f \in [numerator : 0..MaxDen, denominator : 1..MaxDen] :
                 f.numerator <= f.denominator }
Canvases == { [width |-> 640, height |-> 480], [width |-> 7, height |-> 5] }
InputSizes == { [width |-> 640, height |-> 360], [width |-> 4, height |-> 3],
                [width |-> 3, height |-> 5], [width |-> 1, height |-> 1] }

\* Quotients a division by zero may leave behind, when it leaves any.
Leftovers == {0, 1, 1000}

InitRegion ==
    \E crop \in BOOLEAN, canvas \in Canvases, input \in InputSizes,
       left \in Fractions, top \in Fractions, width \in Fractions, height \in Fractions :
        InitArgs(Readers, [crop |-> crop, canvas |-> canvas, input |-> input,
                           rect |-> [left |-> left, top |-> top,
                                     width |-> width, height |-> height]])

\* One region of layout_regions up to the call of I420Scale; a division
\* by zero ends the process or goes on with some quotient.
PlaceRegion ==
    /\ result = <<>>
    /\ LET cell == Cell(args.canvas, args.rect) IN
       \E whatever \in Leftovers, fault \in BOOLEAN :
           /\ fault => DividesByZero(args.crop, cell)
           /\ ~DividesByZero(args.crop, cell) => whatever = 0
           /\ result' = [fault |-> fault,
                         cell |-> cell,
                         before |-> Rectangles(args.crop, cell, args.input, whatever),
                         scaled |-> Aligned(Rectangles(args.crop, cell, args.input,
                                                       whatever))]
    /\ UNCHANGED <<args, CallRest>>

NextRegion == PlaceRegion

SpecRegion == InitRegion /\ [][NextRegion]_vars

(* ------------ specification of the AvatarManager's calls -------------- *)

\* What the AvatarManager's calls leave alone.
CacheRest == <<coreVars, TickLocals, outVars, layoutVars, orderVars, args, d_pc, running>>

\* The record of a setAvatar or unsetAvatar call on index i: the URL the
\* index was bound to, that URL's cache entry before the call, and whether
\* another index is bound to it after the call.
Rebound(op, i) ==
    [op |-> op, url |-> m_inputs[i],
     entry |-> IF m_inputs[i] = NoUrl THEN "none" ELSE m_frames[m_inputs[i]],
     shared |-> \E j \in Inputs : m_inputs'[j] = m_inputs[i]]

CacheSet(i, u) ==
    /\ SetAvatar(i, u)
    /\ result' = Rebound(IF m_inputs[i] = u THEN "same" ELSE "set", i)
    /\ UNCHANGED CacheRest

CacheUnset(i) ==
    /\ UnsetAvatar(i)
    /\ result' = Rebound("unset", i)
    /\ UNCHANGED CacheRest

\* getAvatarFrame(index), as the generator calls it for an inactive input.
CacheGet(i) ==
    /\ m_frames' = FramesAfterGet(i)
    /\ av_hist' = HistAfterGet(i)
    /\ result' = [op |-> "get", url |-> NoUrl, entry |-> "none", shared |-> FALSE]
    /\ UNCHANGED <<m_inputs, fileOk, CacheRest>>

CacheFileChange(u) == FileChange(u) /\ UNCHANGED <<result, CacheRest>>

NextCache ==
    \/ \E i \in Inputs, u \in Urls : CacheSet(i, u)
    \/ \E i \in Inputs : CacheUnset(i)
    \/ \E i \in Inputs : CacheGet(i)
    \/ \E u \in Urls : CacheFileChange(u)

SpecCache == Init /\ [][NextCache]_vars

(* ---------- specification of addOutput and removeOutput alone --------- *)

\* The calls of the compositor's clients while no timer fires.
NextRegister ==
    \/ \E fps \in ListedRates \cup OtherRates, dst \in Dests : OutAdd(fps, dst)
    \/ \E dst \in Dests : OutRemove(dst)

SpecRegister == Init /\ [][NextRegister]_vars

(* ---------------- specification of rejected addOutput ----------------- *)

\* One rate of each generator, and the rates no generator is built for.
RejectRates == {30, 12} \cup OtherRates

\* A call of addOutput; a destination is accepted once a call registers it.
RejAdd(fps, dst) ==
    /\ AddOutput(fps, dst)
    /\ accepted' = IF Accepting(fps) # {} THEN accepted \cup {dst} ELSE accepted
    /\ UNCHANGED <<delivered, hist, fails, watchVars>>

RejDeliver(g, gotBuffer) ==
    /\ TickDeliver(g, gotBuffer)
    /\ delivered' = delivered \cup Got(g, gotBuffer)
    /\ UNCHANGED <<accepted, hist, fails, watchVars>>

NextReject ==
    \/ \E fps \in RejectRates, dst \in Dests : RejAdd(fps, dst)
    \/ \E dst \in Dests : OutRemove(dst)
    \/ \E g \in Gens : OutCheck(g)
    \/ \E g \in Gens : OutReconfigure(g)
    \/ \E g \in Gens, gotBuffer \in BOOLEAN : RejDeliver(g, gotBuffer)

SpecReject == Init /\ [][NextReject]_vars

(* ------------- specification of what each onTimeout does -------------- *)

\* A rate of each generator: one due on every tick, one on every fourth.
WatchRates == {60, 12}

\* Every destination is registered by at most one addOutput call at a time.
WatchAdd(fps, dst) ==
    /\ registered[dst] = 0
    /\ AddOutput(fps, dst)
    /\ registered' = IF Accepting(fps) # {} THEN [registered EXCEPT ![dst] = fps]
                     ELSE registered
    /\ UNCHANGED <<accepted, delivered, hist, fails, tick>>

WatchRemove(dst) ==
    /\ RemoveOutput(dst)
    /\ registered' = IF \E g \in Gens : RegisteredIn(g, dst)
                     THEN [registered EXCEPT ![dst] = 0]
                     ELSE registered
    /\ UNCHANGED <<accepted, delivered, hist, fails, tick>>

WatchCheck(g) ==
    /\ TickCheck(g)
    /\ tick' = IF hasValidOutput(g) THEN tick ELSE TickDone(g, FALSE, {})
    /\ UNCHANGED <<accepted, delivered, hist, fails, registered>>

WatchDeliver(g, gotBuffer) ==
    /\ TickDeliver(g, gotBuffer)
    /\ tick' = TickDone(g, ~gotBuffer, Got(g, gotBuffer))
    /\ delivered' = delivered \cup Got(g, gotBuffer)
    /\ UNCHANGED <<accepted, hist, fails, registered>>

NextWatch ==
    \/ \E fps \in WatchRates, dst \in Dests : WatchAdd(fps, dst)
    \/ \E dst \in Dests : WatchRemove(dst)
    \/ \E g \in Gens : WatchCheck(g)
    \/ \E g \in Gens : OutReconfigure(g)
    \/ \E g \in Gens, gotBuffer \in BOOLEAN : WatchDeliver(g, gotBuffer)

SpecWatch == Init /\ [][NextWatch]_vars

(* ------------- specification of the compositor's destructor ----------- *)

\* The position of the destroying thread once the destructor has returned.
Returned == NumGenerators + 2

\* JobTimer::stop: it returns when no onTimeout of the timer is in progress,
\* and none begins afterwards.
JobTimerStop(g) ==
    /\ t_pc[g] = "idle"
    /\ running' = [running EXCEPT ![g] = FALSE]

\* SoftVideoCompositor::~SoftVideoCompositor is called; the clients' calls
\* have ended.
DestroyBegin ==
    /\ d_pc = 0
    /\ upd = <<>>
    /\ d_pc' = 1
    /\ UNCHANGED <<running, args, result, coreVars, tickVars, outVars, layoutVars,
                   orderVars>>

\* Mutant of DestroyGenerator: the timer is left running.
DestroyGenerator_NoStop(g) ==
    /\ d_pc = g
    /\ d_pc' = g + 1
    /\ UNCHANGED <<running, args, result, coreVars, tickVars, outVars, layoutVars,
                   orderVars>>

\* m_generators.clear(): SoftFrameGenerator::~SoftFrameGenerator of
\* generator g stops its timer (outputs still registered are only warned of).
DestroyGenerator(g) ==
    /\ d_pc = g
    /\ JobTimerStop(g)
    /\ d_pc' = g + 1
    /\ UNCHANGED <<args, result, coreVars, tickVars, outVars, layoutVars, orderVars>>

\* m_avatarManager.reset(); m_inputs.clear(); the destructor returns.
DestroyEnd ==
    /\ d_pc = NumGenerators + 1
    /\ d_pc' = Returned
    /\ m_inputs' = [i \in Inputs |-> NoUrl]
    /\ m_frames' = [u \in Urls |-> "none"]
    /\ m_frame_queue' = [i \in Inputs |-> <<>>]
    /\ UNCHANGED <<running, args, result, m_active, m_sync_enabled, m_frame_sync_enabled,
                   poolDim, pushVars, readVars, m_layout, fileOk, av_hist, g_pc, g_it,
                   min_sync_timeStamp, max_sync_timeStamp, capable, painted, envLeft,
                   scenario, outVars, layoutVars, orderVars>>

\* The clients call the compositor only before they destroy it.
DestroyAdd(fps, dst) == d_pc = 0 /\ WatchAdd(fps, dst)

DestroyRemove(dst) == d_pc = 0 /\ WatchRemove(dst)

NextDestroy ==
    \/ \E fps \in WatchRates : DestroyAdd(fps, 1)
    \/ DestroyRemove(1)
    \/ \E g \in Gens : WatchCheck(g)
    \/ \E g \in Gens : OutReconfigure(g)
    \/ \E g \in Gens, gotBuffer \in BOOLEAN : WatchDeliver(g, gotBuffer)
    \/ DestroyBegin
    \/ \E g \in Gens : DestroyGenerator(g)
    \/ DestroyEnd

SpecDestroy == Init /\ [][NextDestroy]_vars

(* --------------- specification of the cadence of onFrame --------------- *)

\* One destination is registered, removed and registered again.

CadAdd(fps, dst) ==
    /\ AddOutput(fps, dst)
    /\ hist' = IF Accepting(fps) # {} THEN [hist EXCEPT ![dst] = NoHist] ELSE hist
    /\ UNCHANGED <<accepted, delivered, fails, watchVars>>

CadRemove(dst) ==
    /\ RemoveOutput(dst)
    /\ hist' = [hist EXCEPT ![dst] = NoHist]
    /\ UNCHANGED <<accepted, delivered, fails, watchVars>>

CadCheck(g) ==
    /\ TickCheck(g)
    /\ hist' = IF hasValidOutput(g) THEN hist ELSE HistAfterTick(g, {}, FALSE)
    /\ UNCHANGED <<accepted, delivered, fails, watchVars>>

CadReconfigure(g) == Reconfigure(g) /\ UNCHANGED obsVars

\* At most MaxFail ticks of a run find no canvas buffer.
CadDeliver(g, gotBuffer) ==
    /\ gotBuffer \/ fails < MaxFail
    /\ TickDeliver(g, gotBuffer)
    /\ fails' = IF gotBuffer THEN fails ELSE fails + 1
    /\ hist' = HistAfterTick(g, Got(g, gotBuffer), ~gotBuffer)
    /\ UNCHANGED <<accepted, delivered, watchVars>>

NextCadence ==
    \/ \E fps \in ListedRates : CadAdd(fps, 1)
    \/ CadRemove(1)
    \/ \E g \in Gens : CadCheck(g)
    \/ \E g \in Gens : CadReconfigure(g)
    \/ \E g \in Gens, gotBuffer \in BOOLEAN : CadDeliver(g, gotBuffer)

SpecCadence == Init /\ [][NextCadence]_vars

(* ----------------------- claims on one SoftInput ---------------------- *)

AllIdle == \A p \in Pushers : pc[p] = "idle"

\* C1: in every reachable state the frame queue of an input holds at most
\* kMaxQueueSize frames, whatever the interleaving of concurrent pushInput
\* calls, popInput, get_sync_frame and setActive.
C1_QueueBounded == \A i \in Inputs : Len(m_frame_queue[i]) <= kMaxQueueSize

C3_DemotionPermanent == \A i \in Inputs : overflowed[i] => ~isSyncEnabled(i)

\* After the overflow a further frame with sync_enabled = true was pushed and
\* has reached the front of the queue.
C3_Witness ==
    /\ AllIdle
    /\ overflowed[1] /\ m_active[1] /\ m_frame_sync_enabled[1]
    /\ m_frame_queue[1] # <<>>
    /\ m_frame_queue[1][1].id = kMaxQueueSize + 2

\* C9: popInput on an active input with a non-empty queue returns the front
\* and removes it if and only if the queue held more than one frame, so the
\* queue keeps at least one frame; on an inactive input or an empty queue it
\* returns nothing and changes nothing of the input.
C9_PopInput ==
    [][\A g \in Readers :
          PopInput(g, 1)
          => LET q == m_frame_queue[1] IN
             IF m_active[1] /\ q # <<>>
             THEN /\ ret'[g] = <<q[1]>>
                  /\ (Len(q) > 1 => m_frame_queue'[1] = SubSeq(q, 2, Len(q)))
                  /\ (Len(q) = 1 => m_frame_queue'[1] = q)
                  /\ Len(m_frame_queue'[1]) >= 1
             ELSE /\ ret'[g] = NullFrame
                  /\ UNCHANGED inputVars]_vars

\* popInput has returned and kept the only frame of a one-frame queue.
C9_Witness ==
    /\ rop[1] = [op |-> "popInput", removed |-> 0]
    /\ m_active[1]
    /\ Len(m_frame_queue[1]) = 1
    /\ ret[1] = <<m_frame_queue[1][1]>>

\* C10: get_sync_frame(target) on an active input with a non-empty queue
\* returns the front and leaves the queue unchanged for target = -1;
\* otherwise it removes exactly the longest run of leading frames with
\* sync_timeStamp < target that leaves one frame, and returns the new front.
C10_GetSyncFrame ==
    [][\A g \in Readers, t \in ReadTargets :
          (GetSyncFrame(g, 1, t) /\ m_active[1] /\ m_frame_queue[1] # <<>>)
          => LET q == m_frame_queue[1]
                 r == m_frame_queue'[1]
                 k == Len(q) - Len(r)
             IN /\ Len(r) >= 1
                /\ ret'[g] = <<r[1]>>
                /\ k >= 0
                /\ r = SubSeq(q, k + 1, Len(q))
                /\ (t = -1 => k = 0)
                /\ \A j \in 1..k : q[j].sync_timeStamp < t
                /\ (t # -1 => (r[1].sync_timeStamp >= t \/ Len(r) = 1))]_vars

\* get_sync_frame has removed two frames and returned a frame that reaches
\* the target while more frames are queued behind it.
C10_Witness ==
    /\ rop[1] = [op |-> "get_sync_frame", removed |-> 2]
    /\ m_active[1]
    /\ Len(m_frame_queue[1]) >= 2
    /\ ret[1] = <<m_frame_queue[1][1]>>

\* C13: a pushInput call that finds its input inactive changes nothing, in
\* its first locked section as in its second, and the queue of an inactive
\* input is empty in every reachable state, also after setActive(false) ran
\* between the two locked sections of a pushInput call.
C13_InactiveQueueEmpty ==
    /\ [](\A i \in Inputs : ~m_active[i] => m_frame_queue[i] = <<>>)
    /\ [][\A p \in Pushers :
            /\ (~m_active[1] /\ PushCheck(p, 1, nextId)) => UNCHANGED coreVars
            /\ (pc[p] = "enqueue" /\ ~m_active[pframe[p].input]
                  /\ \E syncBit \in BOOLEAN : PushEnqueue(p, syncBit))
               => UNCHANGED <<inputVars, poolDim, readVars>>]_vars

\* setActive(false) ran after the first locked section of a pushInput call
\* that is now about to enter its second one; another call has since found
\* the input inactive or is still converting.
C13_Witness ==
    /\ ~m_active[1]
    /\ m_frame_queue[1] = <<>>
    /\ \E p \in Pushers : pc[p] = "enqueue" /\ pframe[p].input = 1 /\ pframe[p].pooled

\* The place of frame id in the order of the enqueues, 0 when it never was
\* enqueued.
EnqueuePos(order, id) ==
    IF \E k \in 1..Len(order) : order[k] = id
    THEN CHOOSE k \in 1..Len(order) : order[k] = id
    ELSE 0

\* C14: a frame a generator obtains from an input has been enqueued, and when
\* it is another frame than the one the generator obtained before, it was
\* enqueued after that one, whatever pushes, reads of the other generator,
\* overflow clears and setActive calls were interleaved.
C14_ObtainedInEnqueueOrder ==
    [][\A g \in Gens :
         obtained'[g] # obtained[g]
         => /\ EnqueuePos(enq_order', obtained'[g]) > 0
            /\ obtained[g] # 0
                  => EnqueuePos(enq_order', obtained'[g]) > EnqueuePos(enq_order', obtained[g])]_vars

\* The queue overflowed and was cleared after the first generator had
\* obtained an early frame; both generators have since obtained the frame
\* pushed last, which a second pusher had enqueued out of the order of the
\* calls.
C14_Witness ==
    /\ overflowed[1]
    /\ Len(enq_order) = MaxPush
    /\ enq_order[MaxPush] = MaxPush - 1
    /\ obtained = [g \in Gens |-> MaxPush - 1]

(* ------------------------ claims on a composition --------------------- *)

\* No call has interleaved with the composition so far.
Alone == envLeft = MaxEnv

\* The first loop has ended and the second has not fetched yet.
ScanEnd == g_pc = "isActive" /\ painted = <<>>

\* The regions whose input is sync-enabled with a non-empty queue.
CapableRegions ==
    { k \in 1..Len(m_layout) :
        isSyncEnabled(m_layout[k]) /\ front(m_layout[k]) # NullFrame }

MaxOf(S) == CHOOSE x \in S : \A y \in S : y <= x

MinOf(S) == CHOOSE x \in S : \A y \in S : x <= y

FrontTs == { front(m_layout[k])[1].sync_timeStamp : k \in CapableRegions }

BackTs == { back(m_layout[k])[1].sync_timeStamp : k \in CapableRegions }

\* C4: on a composition in sync mode, every region whose input was
\* sync-enabled with a non-empty queue when the target was computed is painted
\* with a queued frame whose sync_timeStamp is at least max_sync, whatever
\* pushInput and setActive calls interleave with the composition.
C4_SyncPaintsTarget ==
    Mode(min_sync_timeStamp, max_sync_timeStamp) = "sync"
    => \A k \in 1..Len(painted) :
          k \in capable
          => /\ painted[k] # NullFrame
             /\ painted[k][1].id # 0
             /\ painted[k][1].sync_timeStamp >= max_sync_timeStamp

\* The composition of scenario S3 has ended and no call interleaved with it.
S3Done == scenario = "S3" /\ Alone /\ g_pc = "done"

\* C5 as stated: in scenario S3 (queues [100, 200, 300, 400] and
\* [250, 350, 450], both inputs sync-enabled and in the layout) a composition
\* computes min_sync = 250 and max_sync = 300 and leaves the fronts at 300
\* and 350.
C5_ScenarioS3_Stated ==
    S3Done
    => /\ min_sync_timeStamp = 250
       /\ max_sync_timeStamp = 300
       /\ m_frame_queue[1][1].sync_timeStamp = 300
       /\ m_frame_queue[2][1].sync_timeStamp = 350

\* C5 amended: in scenario S3 a composition computes min_sync = 250 and
\* max_sync = 400 (the smaller of the backs 400 and 450), paints the frames
\* 400 and 450 and leaves these two as the fronts.
C5_ScenarioS3 ==
    S3Done
    => /\ min_sync_timeStamp = 250
       /\ max_sync_timeStamp = 400
       /\ m_frame_queue[1][1].sync_timeStamp = 400
       /\ m_frame_queue[2][1].sync_timeStamp = 450
       /\ painted = << <<m_frame_queue[1][1]>>, <<m_frame_queue[2][1]>> >>

\* The composition of scenario S3 has ended in sync mode with both regions
\* painted from their queues.
C5_Witness ==
    /\ S3Done
    /\ Mode(min_sync_timeStamp, max_sync_timeStamp) = "sync"
    /\ capable = {1, 2}
    /\ Len(painted) = 2
    /\ \A k \in 1..2 : painted[k] = front(k)

\* C6: when the first loop ends, min_sync is the largest front timestamp and
\* max_sync the smallest back timestamp over the regions whose input is
\* sync-enabled with a non-empty queue, and both are -1 when there is none.
C6_WindowIsMaxFrontMinBack ==
    (ScanEnd /\ Alone)
    => IF CapableRegions = {}
       THEN min_sync_timeStamp = -1 /\ max_sync_timeStamp = -1
       ELSE /\ min_sync_timeStamp = MaxOf(FrontTs)
            /\ max_sync_timeStamp = MinOf(BackTs)

\* C7: a composition runs in unsynced mode if and only if no region has an
\* input that is sync-enabled with a non-empty queue, whatever the queued
\* timestamps are.
C7_UnsyncedIffNoCapable ==
    (ScanEnd /\ Alone)
    => (Mode(min_sync_timeStamp, max_sync_timeStamp) = "unsynced" <=> CapableRegions = {})

\* The second loop is at a region of a composition in hold mode.
InHold ==
    /\ g_pc \in {"isActive", "fetchSyncEnabled", "popInput", "get_sync_frame", "scale"}
    /\ Mode(min_sync_timeStamp, max_sync_timeStamp) = "hold"

\* C8: no step of a composition in hold mode, with which no call has
\* interleaved, changes a queue, and the frame fetched from an input's queue
\* is the front of that queue.
C8_HoldKeepsQueues ==
    [][(InHold /\ Alone /\ GeneratorStep)
       => /\ m_frame_queue' = m_frame_queue
          /\ ((FetchPop \/ FetchGet) => painted' = Append(painted, front(CurInput)))]_vars

\* A composition in hold mode has ended: both regions show the front of
\* their queue, and the frames behind the front are still queued.
C8_Witness ==
    /\ g_pc = "done" /\ Alone
    /\ Mode(min_sync_timeStamp, max_sync_timeStamp) = "hold"
    /\ Len(painted) = 2
    /\ \A k \in 1..2 : painted[k] = front(m_layout[k]) /\ painted[k] # NullFrame
    /\ \E i \in Inputs : Len(m_frame_queue[i]) >= 2

(* --------------------------- claims on avatars ------------------------ *)

\* Some index maps to URL u.
Mapped(u) == \E i \in Inputs : m_inputs[i] = u

\* C15 as stated: a URL has an entry in the frame cache if and only if some
\* index maps to it.
C15_CachedIffMapped == \A u \in Urls : m_frames[u] # "none" <=> Mapped(u)

\* C15 amended: a URL that has an entry in the frame cache is mapped by some
\* index (a mapped URL gets its entry only at the first getAvatarFrame of an
\* index mapped to it).
C15_CachedOnlyIfMapped == \A u \in Urls : m_frames[u] # "none" => Mapped(u)

\* URL 1 was loaded for an avatar, URL 2 is mapped and not loaded yet.
C15_Witness ==
    /\ m_inputs = [i \in Inputs |-> IF i = 1 THEN 1 ELSE 2]
    /\ m_frames[1] = "frame"
    /\ m_frames[2] = "none"

\* getInputFrame / getSyncInputFrame take the avatar of an inactive input.
AvatarFetch == FetchIsActive /\ ~m_active[CurInput]

\* C16: after a failed load getAvatarFrame(index) returns nothing until
\* setAvatar(index, url) is called with a URL that loads, and the first
\* getAvatarFrame(index) after such a setAvatar returns the loaded frame.
C16_FailureUntilSetAvatar ==
    [][AvatarFetch
       => /\ (av_hist[CurInput] = "failed" => ret'[G] = NullFrame)
          /\ (av_hist[CurInput] = "set" => ret'[G] = <<AvatarFrame(m_inputs[CurInput])>>)]_vars

\* C17: for an inactive index getInputFrame and getSyncInputFrame return the
\* avatar frame when one is bound and loadable, and nothing when none is bound.
C17_InactiveShowsAvatar ==
    [][AvatarFetch
       => /\ ((m_inputs[CurInput] # NoUrl /\ fileOk[m_inputs[CurInput]])
                 => ret'[G] = <<AvatarFrame(m_inputs[CurInput])>>)
          /\ (m_inputs[CurInput] = NoUrl => ret'[G] = NullFrame)]_vars

(* ------------ specification of the order of obtained frames ---------- *)

\* What the calls on a SoftInput leave alone besides the order of its frames.
OrderRest == <<tickVars, outVars, layoutVars, extVars>>

\* The two generators read input 1 while frames of one size are pushed to it.
OrderSetActive(active) == SetActive(1, active) /\ UNCHANGED <<orderVars, OrderRest>>

OrderPushCheck(p) == PushCheck(p, 1, nextId) /\ UNCHANGED <<orderVars, OrderRest>>

OrderPushConvert(p) == PushConvert(p, 1) /\ UNCHANGED <<orderVars, OrderRest>>

OrderPushEnqueue(p, syncBit) ==
    /\ PushEnqueue(p, syncBit)
    /\ enq_order' = IF m_active[pframe[p].input] THEN Append(enq_order, pframe[p].id)
                    ELSE enq_order
    /\ UNCHANGED <<obtained, OrderRest>>

\* The frame generator g has obtained last, after a read that returned ret'[g].
ObtainedAfter(g) ==
    IF ret'[g] = NullFrame THEN obtained ELSE [obtained EXCEPT ![g] = ret'[g][1].id]

OrderPopInput(g) ==
    /\ PopInput(g, 1)
    /\ obtained' = ObtainedAfter(g)
    /\ UNCHANGED <<enq_order, OrderRest>>

OrderGetSyncFrame(g, target) ==
    /\ GetSyncFrame(g, 1, target)
    /\ obtained' = ObtainedAfter(g)
    /\ UNCHANGED <<enq_order, OrderRest>>

OrderRelease(g) == Release(g) /\ UNCHANGED <<orderVars, OrderRest>>

NextOrder ==
    \/ \E b \in BOOLEAN : OrderSetActive(b)
    \/ \E p \in Pushers : OrderPushCheck(p)
    \/ \E p \in Pushers : OrderPushConvert(p)
    \/ \E p \in Pushers, s \in BOOLEAN : OrderPushEnqueue(p, s)
    \/ \E g \in Gens : OrderPopInput(g)
    \/ \E g \in Gens, t \in SyncTargets : OrderGetSyncFrame(g, t)
    \/ \E g \in Gens : OrderRelease(g)

\* Input 1 is active and sync-enabled with an empty, a part-filled or a full
\* queue of frames with increasing timestamps; the readers are the two
\* generators.
OrderLens == {0, 2, kMaxQueueSize}

InitOrder ==
    \E n \in OrderLens :
        InitFromWith([i \in Inputs |->
                         IF i = 1 THEN [active |-> TRUE, sync |-> TRUE, fsync |-> TRUE,
                                        ts |-> [k \in 1..n |-> k]]
                         ELSE Inactive],
                     <<1>>, NoAvatars, "order", Gens)

SpecOrder == InitOrder /\ [][NextOrder]_vars

(* --------------- specification of the layout hand-over ---------------- *)

\* Each generator gets one output at its maximum rate, so that every tick
\* composes a frame, while the compositor's updateLayoutSolution is called.
NextLayout ==
    \/ OutAdd(60, 1)
    \/ OutAdd(48, 2)
    \/ \E g \in Gens : OutCheck(g)
    \/ \E g \in Gens : OutReconfigure(g)
    \/ \E g \in Gens, gotBuffer \in BOOLEAN : OutDeliver(g, gotBuffer)
    \/ \E solution \in Layouts : UpdateBegin(solution)
    \/ UpdateNext

SpecLayout == Init /\ [][NextLayout]_vars

(* ------------------------ claims on output rates ---------------------- *)

\* The entries of generator g in outs that name dst.
DestEntries(outs, g, dst) ==
    { bk \in (DOMAIN outs[g]) \X (1..MaxOutputs) :
        bk[2] <= Len(outs[g][bk[1]]) /\ outs[g][bk[1]][bk[2]].dest = dst }

\* C11 as stated: for a destination registered once, at fps f on a generator
\* of maximum rate maxFps, the generator performs exactly maxFps / f ticks
\* between two successive onFrame calls, whether or not a tick in between
\* found no canvas buffer.
C11_ExactCadence ==
    \A dst \in Dests, g \in Gens :
        \A bk \in DestEntries(m_outputs, g, dst) :
            (/\ \A h \in Gens \ {g} : DestEntries(m_outputs, h, dst) = {}
             /\ DestEntries(m_outputs, g, dst) = {bk}
             /\ hist[dst].gap # 0)
            => hist[dst].gap = m_maxSupportedFps(g) \div m_outputs[g][bk[1]][bk[2]].fps

\* C11 amended: the number of ticks between two successive onFrame calls is a
\* positive multiple of maxFps / f; it is maxFps / f when every due tick in
\* between found a canvas buffer, and larger when one did not.
C11_CadenceWhenBuffers ==
    \A dst \in Dests, g \in Gens :
        \A bk \in DestEntries(m_outputs, g, dst) :
            (/\ \A h \in Gens \ {g} : DestEntries(m_outputs, h, dst) = {}
             /\ DestEntries(m_outputs, g, dst) = {bk}
             /\ hist[dst].gap # 0)
            => LET p == m_maxSupportedFps(g) \div m_outputs[g][bk[1]][bk[2]].fps IN
               /\ hist[dst].gap > 0
               /\ hist[dst].gap % p = 0
               /\ ~hist[dst].skipped => hist[dst].gap = p
               /\ hist[dst].skipped => hist[dst].gap > p

\* Destination 1, registered at 12 frames a second on the generator of
\* maximum rate 48, received two successive frames 8 ticks apart: the due
\* tick in between found no canvas buffer.
C11_Witness ==
    /\ DestEntries(m_outputs, 2, 1) = {<<3, 1>>}
    /\ DestEntries(m_outputs, 1, 1) = {}
    /\ m_outputs[2][3][1].fps = 12
    /\ hist[1].gap = 8
    /\ hist[1].skipped

\* C18: each rate the compositor is built for is accepted by isSupported of
\* exactly one generator, and addOutput with such a rate returns true and
\* adds one entry for dest to the bucket maxFps / fps - 1 of that generator
\* and nothing to the other generator.
C18_ListedRateOneGenerator ==
    [][\A fps \in ListedRates, dst \in Dests :
         AddOutput(fps, dst)
         => \E g \in Gens :
              /\ Accepting(fps) = {g}
              /\ addRet' = "true"
              /\ m_outputs'[g][m_maxSupportedFps(g) \div fps - 1]
                   = Append(m_outputs[g][m_maxSupportedFps(g) \div fps - 1], Output(fps, dst))
              /\ \A b \in DOMAIN m_outputs[g] :
                    b # m_maxSupportedFps(g) \div fps - 1 => m_outputs'[g][b] = m_outputs[g][b]
              /\ \A h \in Gens \ {g} : m_outputs'[h] = m_outputs[h]]_vars

\* addOutput returned true; destination 1 is registered at 30 frames a second
\* on the first generator only and destination 2 at 12 on the second only.
C18_Witness ==
    /\ addRet = "true"
    /\ m_outputs[1][1] = <<Output(30, 1)>>
    /\ m_outputs[2][3] = <<Output(12, 2)>>
    /\ DestEntries(m_outputs, 2, 1) = {}
    /\ DestEntries(m_outputs, 1, 2) = {}

\* C19: addOutput with an fps that no generator's isSupported accepts returns
\* false and leaves the buckets of every generator unchanged, and onFrame is
\* only ever called on destinations that an addOutput call has registered.
C19_UnsupportedRejected ==
    /\ [](delivered \subseteq accepted)
    /\ [][\A fps \in RejectRates, dst \in Dests :
            (RejAdd(fps, dst) /\ \A g \in Gens : ~isSupported(g, fps))
            => addRet' = "false" /\ m_outputs' = m_outputs]_vars

\* addOutput has just returned false, destination 2 was never registered
\* and never received a frame, while destination 1 receives frames.
C19_Witness ==
    /\ addRet = "false"
    /\ accepted = {1}
    /\ delivered = {1}

\* The exponents k with minFps * 2^k no larger than the maximum of generator g.
BandShifts(g) ==
    { k \in 0..(GenBands[g].maxFps \div GenBands[g].minFps) :
        GenBands[g].minFps * 2^k <= GenBands[g].maxFps }

\* C20: every registered output of a generator has fps = minFps * 2^k within
\* the band of the generator and sits in bucket maxFps / fps - 1, every
\* bucket whose index is not of that form is empty, and the tick counter
\* stays in [0, maxFps / minFps).
C20_BucketsWellFormed ==
    \A g \in Gens :
        /\ m_counter[g] >= 0
        /\ m_counter[g] < GenBands[g].maxFps \div GenBands[g].minFps
        /\ \A b \in DOMAIN m_outputs[g] :
              /\ \A k \in 1..Len(m_outputs[g][b]) :
                    /\ \E n \in BandShifts(g) :
                          m_outputs[g][b][k].fps = GenBands[g].minFps * 2^n
                    /\ b = GenBands[g].maxFps \div m_outputs[g][b][k].fps - 1
              /\ (\A n \in BandShifts(g) :
                    b # GenBands[g].maxFps \div (GenBands[g].minFps * 2^n) - 1)
                    => m_outputs[g][b] = <<>>

\* Two outputs of the second generator sit in its buckets 1 and 7 while its
\* counter has reached the last tick of a cycle.
C20_Witness ==
    /\ m_outputs[2][1] # <<>>
    /\ m_outputs[2][7] # <<>>
    /\ m_counter[2] = 7
    /\ m_counter[1] = 3

(* -------------------------- claims on the layout ----------------------- *)

\* C12: the reconfigure step of a composition takes the layout of the last
\* updateLayoutSolution call the generator has completed, and no step taken
\* while the composition is in progress, an updateLayoutSolution call
\* included, changes the layout the composition runs under; such a call
\* leaves its layout for the reconfigure step of the next composition.
C12_OneLayoutPerComposition ==
    [][\A g \in Gens :
         /\ Reconfigure(g) => g_layout'[g] = latest[g]
         /\ t_pc[g] = "layout" => g_layout'[g] = g_layout[g]
         /\ (t_pc[g] = "layout" /\ m_newLayout'[g] # m_newLayout[g])
               => (m_configureChanged'[g] /\ latest'[g] = m_newLayout'[g])]_vars

\* The first generator composes under the layout of an earlier call while a
\* call made during this composition has left another layout for the next.
C12_Witness ==
    /\ t_pc[1] = "layout"
    /\ g_layout[1] = <<1>>
    /\ m_configureChanged[1]
    /\ m_newLayout[1] = <<2, 1>>
    /\ upd # <<>>

(* ------------------- claims on the band of a generator ----------------- *)

\* max = min * 2^k for some k >= 0.
PowerOfTwoRatio(max, min) == \E k \in 0..MaxRate : k <= max \div min /\ max = min * 2^k

\* C21: a generator constructed with (maxFps, minFps) accepts exactly the
\* rates minFps * 2^k <= maxFps when maxFps / minFps is a power of two, and
\* exactly minFps otherwise.
C21_AcceptedRates ==
    result # <<>> =>
        (result.supported <=>
            IF PowerOfTwoRatio(args.maxFps, args.minFps)
            THEN /\ args.fps <= args.maxFps
                 /\ args.fps >= args.minFps
                 /\ args.fps % args.minFps = 0
                 /\ PowerOfTwoRatio(args.fps, args.minFps)
            ELSE args.fps = args.minFps)

\* Both cases happen: a rate between the ends of a power-of-two band is
\* accepted, and a rate inside a band that is not one is refused.
C21_Witness ==
    /\ result # <<>>
    /\ \/ args = [maxFps |-> 16, minFps |-> 2, fps |-> 8] /\ result.supported
       \/ args = [maxFps |-> 12, minFps |-> 5, fps |-> 10] /\ ~result.supported


(* --------------------- claims on what a tick delivers ------------------- *)

\* C22: a tick that finds no free canvas buffer calls onFrame on nobody and
\* still advances the counter by one modulo counterMax; the next tick of that
\* generator that finds a buffer delivers to every destination registered
\* at a rate due on it, and advances the counter too.
C22_StarvedTickThenNormal ==
    /\ tick.g # 0 /\ tick.failed => tick.got = {} /\ tick.advanced
    /\ tick.g # 0 /\ ~tick.failed /\ tick.afterFail =>
           tick.got = tick.due /\ tick.advanced

\* A tick delivers to a destination right after a tick of the same
\* generator that found no buffer.
C22_Witness ==
    /\ tick.g # 0
    /\ ~tick.failed
    /\ tick.afterFail
    /\ tick.got # {}

\* C30: onFrame is called only on destinations registered at that moment:
\* none that addOutput has not registered, and none after removeOutput has
\* returned true for it.
C30_OnlyRegisteredReceive == tick.got \subseteq tick.regd

\* A destination that has received frames and was removed since is left out
\* by a tick that delivers to the other destination.
C30_Witness ==
    \E dst \in delivered :
        /\ registered[dst] = 0
        /\ dst \notin tick.regd
        /\ tick.got = Dests \ {dst}


C24_PtsIsClockTimes90 ==
    result # <<>> =>
        /\ result.compositeFrame.timestamp = args.timestamp_ms * 90
        /\ result.compositeFrame.ntp_time_ms = args.timestamp_ms
        /\ result.frame.timeStamp = result.compositeFrame.timestamp


(* ------------------- claims on the geometry of a region ---------------- *)

\* n is the largest extent up to limit whose rectangle of the input's aspect
\* ratio (n across along, the rest in proportion) fits: n * across <= along * other.
LargestFitting(n, limit, across, along, other) ==
    /\ n <= limit
    /\ n * across <= along * other
    /\ n = limit \/ (n + 1) * across > along * other

\* offset centres a stretch of length inner inside one of length outer.
Centres(offset, inner, outer) ==
    /\ offset >= 0
    /\ (outer - inner - offset) - offset \in {0, 1}

\* The 320 x 240 cells of the 640 x 480 canvas, and a 640 x 360 input.
InExample ==
    /\ result # <<>>
    /\ ~args.crop
    /\ args.canvas = [width |-> 640, height |-> 480]
    /\ args.input = [width |-> 640, height |-> 360]
    /\ result.cell.dst_width = 320
    /\ result.cell.dst_height = 240

\* C25: in letterbox mode a 640 x 360 input in a 320 x 240 cell of a
\* 640 x 480 canvas is painted 320 x 180, 30 pixels below the cell's top; in
\* general the painted rectangle, before the alignment, is the largest one
\* of the input's aspect ratio that fits the clipped cell, centred in it.
C25_LetterboxFitsAndCentres ==
    /\ InExample =>
           /\ result.before.cropped_dst_width = 320
           /\ result.before.cropped_dst_height = 180
           /\ result.before.dst_y = result.cell.dst_y + 30
           /\ result.before.dst_x = result.cell.dst_x
    /\ result # <<>> /\ ~args.crop =>
           LET cell == result.cell
               r == result.before
           IN  /\ LargestFitting(r.cropped_dst_width, cell.dst_width,
                                 args.input.height, args.input.width, cell.dst_height)
               /\ LargestFitting(r.cropped_dst_height, cell.dst_height,
                                 args.input.width, args.input.height, cell.dst_width)
               /\ Centres(r.dst_x - cell.dst_x, r.cropped_dst_width, cell.dst_width)
               /\ Centres(r.dst_y - cell.dst_y, r.cropped_dst_height, cell.dst_height)

\* The example of the claim, in the cell at the canvas's centre.
C25_Witness ==
    /\ InExample
    /\ result.cell.dst_x = 320
    /\ result.cell.dst_y = 240
    /\ result.before.dst_y = 270

\* C26: for fractions in [0, 1] and any input size, a rectangle is passed to
\* the scaler; it lies inside the canvas, its source inside the input, and
\* all eight coordinates are even, in crop and in letterbox mode.
C26_InsideAndEven ==
    result # <<>> =>
        LET r == result.scaled IN
        /\ ~result.fault
        /\ r.dst_x + r.cropped_dst_width <= args.canvas.width
        /\ r.dst_y + r.cropped_dst_height <= args.canvas.height
        /\ r.src_x + r.src_width <= args.input.width
        /\ r.src_y + r.src_height <= args.input.height
        /\ \A c \in {r.src_x, r.src_y, r.src_width, r.src_height, r.dst_x, r.dst_y,
                     r.cropped_dst_width, r.cropped_dst_height} : c >= 0 /\ c % 2 = 0


(* ---------------------- claims on the avatar cache --------------------- *)

\* C27: every URL in the frame cache is bound to some index; a setAvatar
\* or unsetAvatar that takes an index off a URL removes the URL's cache
\* entry when no index is bound to it any more, and leaves the entry as it
\* was when another index still is.
C27_CacheFollowsBindings ==
    /\ \A u \in Urls : m_frames[u] # "none" => \E i \in Inputs : m_inputs[i] = u
    /\ result # <<>> /\ result.op \in {"set", "unset"} /\ result.url # NoUrl =>
           m_frames[result.url] = IF result.shared THEN result.entry ELSE "none"

\* An index was taken off a URL whose frame was cached; the other index is
\* still bound to it and the entry is still there.
C27_Witness ==
    /\ result # <<>>
    /\ result.op \in {"set", "unset"}
    /\ result.url # NoUrl
    /\ result.shared
    /\ result.entry = "frame"
    /\ m_frames[result.url] = "frame"


(* ------------------ claims on the queue of a SoftInput ----------------- *)

\* C28: whenever isSyncEnabled() is false (the input was demoted, or the
\* last enqueued frame had sync_enabled = false) the queue holds at most one
\* frame, however the pushInput calls interleave.
C28_UnsyncedHoldsAtMostOne ==
    \A i \in Inputs : ~isSyncEnabled(i) => Len(m_frame_queue[i]) <= 1

\* A demoted input holds one frame while another pushInput call is between
\* its two locked sections.
C28_Witness ==
    /\ overflowed[1]
    /\ ~m_sync_enabled[1]
    /\ Len(m_frame_queue[1]) = 1
    /\ \E p \in Pushers : pc[p] = "enqueue"


\* C29: while an input stays active, a queue that holds a frame never
\* becomes empty, whichever of pushInput (on a full queue too, with or
\* without a pool buffer afterwards), popInput and get_sync_frame runs
\* next: no later front(), back(), popInput or get_sync_frame finds it empty.
C29_ActiveQueueKeepsAFrame ==
    [][\A i \in Inputs :
          m_active[i] /\ m_active'[i] /\ Len(m_frame_queue[i]) > 0
          => Len(m_frame_queue'[i]) > 0]_vars


(* ------------------ claims on the arithmetic of a region --------------- *)

\* The divisors of the divisions a region's placement computes.
Divisors ==
    IF args.crop THEN {result.cell.dst_height, result.cell.dst_width}
    ELSE {args.input.height, args.input.width}

\* C33: for fractions in [0, 1], a width or height of 0 and a cell clipped
\* to nothing at the canvas edge included, the placement of a region whose
\* input yields a frame divides by no zero and ends without a fault.
C33_NoZeroDivisor ==
    result # <<>> => 0 \notin Divisors /\ ~result.fault


(* -------------- claims on a fetch racing with deactivation ------------- *)

\* C31: an index with a bound, loadable avatar whose input has a queued
\* frame is fetched as a frame of the queue or as the avatar, never as
\* nothing, also when deActivateInput runs during the fetch.
C31_FrameOrAvatar ==
    \A k \in 1..Len(painted) :
        (m_layout[k] = 1 /\ m_inputs[1] # NoUrl /\ fileOk[m_inputs[1]])
        => painted[k] # NullFrame


(* ---------------- claims on hold mode and arriving frames -------------- *)

\* The composition that has just ended selected hold.
EndedInHold ==
    g_pc = "done" /\ Mode(min_sync_timeStamp, max_sync_timeStamp) = "hold"

\* C32: hold does not persist while input 1 keeps receiving frames: a
\* composition selects hold only while the pushes can still end it, that
\* is, it has scanned input 1 as a sync-enabled input (the input has not
\* been demoted before) and input 1's queue holds at most kMaxQueueSize
\* frames (the pushes still fill it, and the push after that demotes it).
C32_HoldEndsWithPushes ==
    EndedInHold =>
        /\ \E k \in capable : m_layout[k] = 1
        /\ Len(m_frame_queue[1]) <= kMaxQueueSize


====
